---- MODULE Spec2Model ----
(***************************************************************************)
(* A model of the GML front end of dejavu: the recursive-descent / Pratt   *)
(* parser of src/front/parser.rs, run over bounded families of token       *)
(* streams.  The parser is a deterministic function of the token stream,   *)
(* so every parse function is an operator that maps a Parser value to the  *)
(* pair (node, span) it returns and the Parser value it leaves behind.     *)
(***************************************************************************)
EXTENDS Integers, Sequences, FiniteSets, TLC

VARIABLES source, parser, result, pc, heap, function, project

vars == <<source, parser, result, pc, heap, function, project>>

\* the variables of the front end, and those of the run time, of the SSA
\* builder and of build; a specification runs one part of the program and
\* leaves the variables of the other parts at Unused
front == <<source, parser, result, pc>>

Unused == <<>>

NoBackEnd == heap = Unused /\ function = Unused /\ project = Unused

NoFrontEnd == source = Unused /\ parser = Unused /\ result = Unused /\ pc = Unused

(***************************************************************************)
(* Bounds of the model.                                                    *)
(***************************************************************************)
\* longest token stream drawn from the free token alphabet
MaxTokens == 3
\* most semicolons written after a statement
MaxSemis == 2
\* most repetitions of the padding digit in a `$` literal
MaxPad == 16

(***************************************************************************)
(* Tokens (front::token::Token) and spans (front::Span).                   *)
(***************************************************************************)
Tok(t, v) == [t |-> t, v |-> v]

Span(low, high) == [low |-> low, high |-> high]

Eof == Tok("Eof", "")

\* a token test `self.current == Token::X`; the payload is compared only
\* between tokens of one kind
Is(token, t, v) == token.t = t /\ token.v = v

Kind(token, t) == token.t = t

(***************************************************************************)
(* The lexer.  A source is a sequence of lexemes, each a token with the    *)
(* byte width of its text and the width of the whitespace before it; the   *)
(* lexer hands out (Token, Span) pairs with byte offsets [low, high) and   *)
(* keeps answering Eof once the source is exhausted.  `next` is the index  *)
(* of the token the next read returns; Eof has the index after the last    *)
(* token, and once Eof has been read `next` stays behind it.               *)
(***************************************************************************)
Lexeme(t, v, w, g) == [t |-> t, v |-> v, w |-> w, g |-> g]

RECURSIVE LowOf(_, _)
LowOf(src, i) ==
    IF i = 1 THEN src[1].g
    ELSE LowOf(src, i - 1) + src[i - 1].w + src[i].g

SourceEnd(src) == IF Len(src) = 0 THEN 0 ELSE LowOf(src, Len(src)) + src[Len(src)].w

Lexer_new(src) ==
    [ toks |-> [i \in 1..Len(src) |->
                  [tok |-> Tok(src[i].t, src[i].v),
                   span |-> Span(LowOf(src, i), LowOf(src, i) + src[i].w)]],
      end |-> SourceEnd(src),
      next |-> 1 ]

read_token(reader) ==
    IF reader.next <= Len(reader.toks)
    THEN [tok |-> reader.toks[reader.next].tok,
          span |-> reader.toks[reader.next].span,
          reader |-> [reader EXCEPT !.next = @ + 1]]
    ELSE [tok |-> Eof, span |-> Span(reader.end, reader.end),
          reader |-> [reader EXCEPT !.next = Len(reader.toks) + 2]]

(***************************************************************************)
(* Parser state: the reader, the current token and its span, and the log   *)
(* of the calls made to the error handler.  `stalled` is a history flag:   *)
(* it is raised when a loop iteration or a parse_statement call that began *)
(* at a token other than Eof ends without having read a token, which in    *)
(* the program would be an iteration that can repeat forever.              *)
(***************************************************************************)
advanced(p, r) ==
    [tok |-> p.current, span |-> p.span,
     p |-> [p EXCEPT !.current = r.tok, !.span = r.span, !.reader = r.reader]]

advance_token(p) == advanced(p, read_token(p.reader))

Parser_new(src) ==
    advance_token([reader |-> Lexer_new(src), current |-> Eof,
                   span |-> Span(0, 0), errors |-> <<>>, stalled |-> FALSE]).p

error(p, span, msg) == [p EXCEPT !.errors = Append(@, [span |-> span, msg |-> msg])]

expect(p, t, v) ==
    IF Is(p.current, t, v) THEN advance_token(p).p
    ELSE error(p, p.span, "unexpected _; expected _")

Consumed(p, q) == q.reader.next > p.reader.next

\* the bookkeeping of `stalled` for a step from p to q that the program
\* repeats or relies on to make progress
Progress(p, q) ==
    IF Kind(p.current, "Eof") \/ Consumed(p, q) THEN q ELSE [q EXCEPT !.stalled = TRUE]

(***************************************************************************)
(* Numbers.  A u64 is its sequence of bits, most significant first and     *)
(* without leading zeros; an f64 is named by its class, sign and exact     *)
(* decimal value dig * 10^e10 (dig without leading or trailing zeros).     *)
(***************************************************************************)
\* width of u64, the type of u64::from_str_radix
U64Bits == 64
\* bits of the significand of an f64, the target of `as f64`
F64Mantissa == 53

F64(cls, neg, dig, e10) == [cls |-> cls, neg |-> neg, dig |-> dig, e10 |-> e10]

F64Zero == F64("fin", FALSE, <<>>, 0)

Three == F64("fin", FALSE, <<3>>, 0)

StripLeading(s) ==
    IF \A i \in 1..Len(s) : s[i] = 0 THEN <<>>
    ELSE SubSeq(s, CHOOSE i \in 1..Len(s) : s[i] # 0 /\ \A j \in 1..(i - 1) : s[j] = 0, Len(s))

TrailingZeros(s) ==
    IF \A i \in 1..Len(s) : s[i] = 0 THEN Len(s)
    ELSE Len(s) - CHOOSE i \in 1..Len(s) : s[i] # 0 /\ \A j \in (i + 1)..Len(s) : s[j] = 0

\* the f64 of the decimal number digits * 10^e10
F64OfDecimal(neg, digits, e10) ==
    LET d == StripLeading(digits)
        z == TrailingZeros(d)
    IN  IF d = <<>> THEN F64("fin", neg, <<>>, 0)
        ELSE F64("fin", neg, SubSeq(d, 1, Len(d) - z), e10 + z)

HexDigits ==
    <<"0", "1", "2", "3", "4", "5", "6", "7", "8", "9", "a", "b", "c", "d", "e", "f">>

HexUpper == [i \in 11..16 |-> <<"A", "B", "C", "D", "E", "F">>[i - 10]]

IsHexDigit(c) == (\E i \in 1..16 : HexDigits[i] = c) \/ (\E i \in 11..16 : HexUpper[i] = c)

IsDecDigit(c) == \E i \in 1..10 : HexDigits[i] = c

\* char::to_digit(16)
to_digit(c) ==
    IF \E i \in 1..16 : HexDigits[i] = c
    THEN (CHOOSE i \in 1..16 : HexDigits[i] = c) - 1
    ELSE (CHOOSE i \in 11..16 : HexUpper[i] = c) - 1

Bits4(d) == << (d \div 8) % 2, (d \div 4) % 2, (d \div 2) % 2, d % 2 >>

\* u64::from_str_radix(text, 16): an optional `+`, then at least one digit;
\* each digit is checked_mul(16) then checked_add(digit), which fails when
\* the number read so far no longer fits U64Bits bits
radix_bits(digits) ==
    StripLeading([i \in 1..(4 * Len(digits)) |->
                     Bits4(to_digit(digits[((i - 1) \div 4) + 1]))[((i - 1) % 4) + 1]])

radix_digits(digits) ==
    IF digits = <<>> \/ \E i \in 1..Len(digits) : ~IsHexDigit(digits[i])
    THEN [ok |-> FALSE, bits |-> <<>>]
    ELSE IF Len(radix_bits(digits)) > U64Bits THEN [ok |-> FALSE, bits |-> <<>>]
    ELSE [ok |-> TRUE, bits |-> radix_bits(digits)]

from_str_radix(text) ==
    radix_digits(IF text # <<>> /\ Head(text) = "+" THEN Tail(text) ELSE text)

\* bits + 1: a bit changes when every bit after it is 1
Increment(bits) ==
    IF \A i \in 1..Len(bits) : bits[i] = 1 THEN <<1>> \o [i \in 1..Len(bits) |-> 0]
    ELSE [i \in 1..Len(bits) |->
             IF \A j \in (i + 1)..Len(bits) : bits[j] = 1 THEN 1 - bits[i] ELSE bits[i]]

Zeros(n) == [i \in 1..n |-> 0]

\* a + b on digit sequences of one length, the most significant digit
\* first: the carry into a digit comes from the nearest digits after it
\* that do not add up to 9
Carry(a, b, i) ==
    \E j \in (i + 1)..Len(a) :
        a[j] + b[j] >= 10 /\ \A k \in (i + 1)..(j - 1) : a[k] + b[k] = 9

AddDigits(a, b) ==
    [i \in 1..Len(a) |-> (a[i] + b[i] + (IF Carry(a, b, i) THEN 1 ELSE 0)) % 10]

\* the digits of weight 10^k of the products digits[i] * m, the last one
\* with c added, as a number of Len(digits) + 3 digits (m * 9 + c < 10^4)
Column(digits, m, c, k) ==
    [i \in 1..(Len(digits) + 3) |->
        IF i + k - 3 < 1 \/ i + k - 3 > Len(digits) THEN 0
        ELSE ((digits[i + k - 3] * m + (IF i + k - 3 = Len(digits) THEN c ELSE 0))
                 \div (10 ^ k)) % 10]

\* digits * m + c
MulAdd(digits, m, c) ==
    StripLeading(AddDigits(AddDigits(Column(<<0>> \o digits, m, c, 0),
                                     Column(<<0>> \o digits, m, c, 1)),
                           AddDigits(Column(<<0>> \o digits, m, c, 2),
                                     Column(<<0>> \o digits, m, c, 3))))

\* the decimal digits of a u64, a byte at a time
Byte(bits, k) ==
    128 * bits[8 * k - 7] + 64 * bits[8 * k - 6] + 32 * bits[8 * k - 5] + 16 * bits[8 * k - 4]
    + 8 * bits[8 * k - 3] + 4 * bits[8 * k - 2] + 2 * bits[8 * k - 1] + bits[8 * k]

RECURSIVE decimal_bytes(_)
decimal_bytes(s) ==
    IF 8 * s.k > Len(s.bits) THEN s.acc
    ELSE decimal_bytes([bits |-> s.bits, k |-> s.k + 1,
                        acc |-> MulAdd(s.acc, 256, Byte(s.bits, s.k))])

DecimalOfBits(bits) ==
    decimal_bytes([bits |-> Zeros((8 - (Len(bits) % 8)) % 8) \o bits, k |-> 1, acc |-> <<>>])

\* `u64 as f64` rounding toward zero
u64_as_f64_truncating(bits) ==
    F64OfDecimal(FALSE,
                 DecimalOfBits(IF Len(bits) <= F64Mantissa THEN bits
                               ELSE SubSeq(bits, 1, F64Mantissa)
                                    \o Zeros(Len(bits) - F64Mantissa)), 0)

\* `u64 as f64`: round to nearest, ties to even, at F64Mantissa bits
u64_as_f64(bits) ==
    LET n == Len(bits)
        keep == SubSeq(bits, 1, F64Mantissa)
        rest == SubSeq(bits, F64Mantissa + 1, n)
        half == <<1>> \o Zeros(n - F64Mantissa - 1)
        up == \/ (Head(rest) = 1 /\ rest # half)
              \/ (rest = half /\ keep[F64Mantissa] = 1)
        rounded == IF n <= F64Mantissa THEN bits
                   ELSE (IF up THEN Increment(keep) ELSE keep) \o Zeros(n - F64Mantissa)
    IN  F64OfDecimal(FALSE, DecimalOfBits(rounded), 0)

\* the longest prefix of decimal digits of a text
RECURSIVE DigitPrefix(_)
DigitPrefix(text) ==
    IF text # <<>> /\ IsDecDigit(Head(text)) THEN <<Head(text)>> \o DigitPrefix(Tail(text))
    ELSE <<>>

DigitValues(text) == [i \in 1..Len(text) |-> to_digit(text[i])]

RECURSIVE NatOf(_)
NatOf(digits) ==
    IF digits = <<>> THEN 0 ELSE 10 * NatOf(SubSeq(digits, 1, Len(digits) - 1)) + digits[Len(digits)]

Drop(text, n) == SubSeq(text, n + 1, Len(text))

\* the exponent of a decimal literal: a sign, then digits to the end
parse_exp(rest) ==
    LET neg == rest # <<>> /\ Head(rest) = "-"
        body == IF rest # <<>> /\ Head(rest) \in {"+", "-"} THEN Tail(rest) ELSE rest
    IN  IF body = <<>> \/ DigitPrefix(body) # body THEN [ok |-> FALSE, exp |-> 0]
        ELSE [ok |-> TRUE,
              exp |-> IF neg THEN 0 - NatOf(DigitValues(body)) ELSE NatOf(DigitValues(body))]

\* the decimal grammar of f64::from_str: digits [. digits] [e exponent],
\* with a digit on at least one side of the point
decimal_point(rest) == rest # <<>> /\ Head(rest) = "."

decimal_fraction(rest) == IF decimal_point(rest) THEN DigitPrefix(Tail(rest)) ELSE <<>>

decimal_exponent(after) ==
    IF after # <<>> /\ Head(after) \in {"e", "E"}
    THEN parse_exp(Tail(after)) ELSE [ok |-> after = <<>>, exp |-> 0]

decimal_of(s, integral, fractional, e) ==
    IF s = <<>> \/ (integral = <<>> /\ fractional = <<>>) \/ ~e.ok
    THEN [ok |-> FALSE, digits |-> <<>>, e10 |-> 0]
    ELSE [ok |-> TRUE, digits |-> DigitValues(integral \o fractional),
          e10 |-> e.exp - Len(fractional)]

decimal_after(s, integral, rest, fractional) ==
    decimal_of(s, integral, fractional,
               decimal_exponent(IF decimal_point(rest) THEN Drop(rest, 1 + Len(fractional))
                                ELSE rest))

decimal_rest(s, integral, rest) == decimal_after(s, integral, rest, decimal_fraction(rest))

decimal_integral(s, integral) == decimal_rest(s, integral, Drop(s, Len(integral)))

parse_decimal(s) == decimal_integral(s, DigitPrefix(s))

\* f64::from_str
strip_sign(text) == IF text # <<>> /\ Head(text) \in {"+", "-"} THEN Tail(text) ELSE text

from_str_of(text, neg, s, d) ==
    IF text = <<>> THEN [ok |-> FALSE, value |-> F64Zero]
    ELSE IF d.ok THEN [ok |-> TRUE, value |-> F64OfDecimal(neg, d.digits, d.e10)]
    ELSE IF s = <<"i", "n", "f">> THEN [ok |-> TRUE, value |-> F64("inf", neg, <<>>, 0)]
    ELSE IF s = <<"N", "a", "N">> THEN [ok |-> TRUE, value |-> F64("nan", FALSE, <<>>, 0)]
    ELSE [ok |-> FALSE, value |-> F64Zero]

from_str(text) ==
    from_str_of(text, text # <<>> /\ Head(text) = "-", strip_sign(text),
                parse_decimal(strip_sign(text)))

\* the Real arm of parse_prefix_expression: the value of a literal and the
\* parser after the diagnostics of the conversion
integer_literal(p, span, r) ==
    IF r.ok THEN [value |-> u64_as_f64(r.bits), p |-> p]
    ELSE [value |-> u64_as_f64(<<>>), p |-> error(p, span, "invalid integer literal")]

float_literal(p, span, r) ==
    IF r.ok THEN [value |-> r.value, p |-> p]
    ELSE [value |-> F64Zero, p |-> error(p, span, "invalid floating point literal")]

real_literal(p, contents, span) ==
    IF contents # <<>> /\ Head(contents) = "$"
    THEN integer_literal(p, span, from_str_radix(Tail(contents)))
    ELSE float_literal(p, span, from_str(contents))

(***************************************************************************)
(* front::ast.  An expression node is a record with its variant in k; a    *)
(* child is the pair (node, span) of the boxed tuple of the program.       *)
(***************************************************************************)
Pair(x, span) == [x |-> x, span |-> span]

Ident(symbol) == [k |-> "Ident", sym |-> symbol]

Real(value) == [k |-> "Real", val |-> value]

String(symbol) == [k |-> "String", sym |-> symbol]

Unary(op, e) == [k |-> "Unary", op |-> op, e |-> e]

Binary(op, l, r) == [k |-> "Binary", op |-> op, l |-> l, r |-> r]

Field(e, field, fspan) == [k |-> "Field", e |-> e, field |-> field, fspan |-> fspan]

Index(e, args) == [k |-> "Index", e |-> e, args |-> args]

Call(f, args) == [k |-> "Call", f |-> f, args |-> args]

(***************************************************************************)
(* Infix::from_token.  Binary::Op(x) is written by the name of x.          *)
(***************************************************************************)
from_binop(op) ==
    CASE op = "Plus" -> "Add"
      [] op = "Minus" -> "Subtract"
      [] op = "Star" -> "Multiply"
      [] op = "Slash" -> "Divide"
      [] op = "Ampersand" -> "BitAnd"
      [] op = "Pipe" -> "BitOr"
      [] op = "Caret" -> "BitXor"

\* from_token taking only == for the equality
binary_of_token_strict(token) ==
    CASE Kind(token, "Lt") -> "Lt"
      [] Kind(token, "Le") -> "Le"
      [] Kind(token, "EqEq") -> "Eq"
      [] Kind(token, "Ne") -> "Ne"
      [] Kind(token, "Ge") -> "Ge"
      [] Kind(token, "Gt") -> "Gt"
      [] Kind(token, "BinOp") -> from_binop(token.v)
      [] Is(token, "Keyword", "div") -> "Div"
      [] Is(token, "Keyword", "mod") -> "Mod"
      [] Kind(token, "And") \/ Is(token, "Keyword", "and") -> "And"
      [] Kind(token, "Or") \/ Is(token, "Keyword", "or") -> "Or"
      [] Kind(token, "Xor") \/ Is(token, "Keyword", "xor") -> "Xor"
      [] Kind(token, "Shl") -> "ShiftLeft"
      [] Kind(token, "Shr") -> "ShiftRight"
      [] OTHER -> ""

\* the inner match of from_token: the binary operator of a token, "" if none
binary_of_token(token) ==
    CASE Kind(token, "Lt") -> "Lt"
      [] Kind(token, "Le") -> "Le"
      [] Kind(token, "Eq") -> "Eq"
      [] Kind(token, "EqEq") -> "Eq"
      [] Kind(token, "Ne") -> "Ne"
      [] Kind(token, "Ge") -> "Ge"
      [] Kind(token, "Gt") -> "Gt"
      [] Kind(token, "BinOp") -> from_binop(token.v)
      [] Is(token, "Keyword", "div") -> "Div"
      [] Is(token, "Keyword", "mod") -> "Mod"
      [] Kind(token, "And") \/ Is(token, "Keyword", "and") -> "And"
      [] Kind(token, "Or") \/ Is(token, "Keyword", "or") -> "Or"
      [] Kind(token, "Xor") \/ Is(token, "Keyword", "xor") -> "Xor"
      [] Kind(token, "Shl") -> "ShiftLeft"
      [] Kind(token, "Shr") -> "ShiftRight"
      [] OTHER -> ""

\* binary_precedence with the bitwise and the shift levels exchanged
binary_precedence_swapped(op) ==
    CASE op \in {"Multiply", "Divide", "Div", "Mod"} -> 6
      [] op \in {"Add", "Subtract"} -> 5
      [] op \in {"ShiftLeft", "ShiftRight"} -> 3
      [] op \in {"BitAnd", "BitXor", "BitOr"} -> 4
      [] op \in {"Lt", "Le", "Eq", "Ne", "Ge", "Gt"} -> 2
      [] op \in {"And", "Or", "Xor"} -> 1

binary_precedence(op) ==
    CASE op \in {"Multiply", "Divide", "Div", "Mod"} -> 6
      [] op \in {"Add", "Subtract"} -> 5
      [] op \in {"ShiftLeft", "ShiftRight"} -> 4
      [] op \in {"BitAnd", "BitXor", "BitOr"} -> 3
      [] op \in {"Lt", "Le", "Eq", "Ne", "Ge", "Gt"} -> 2
      [] op \in {"And", "Or", "Xor"} -> 1

\* precedence of Infix::Field, Infix::Index and Infix::Call, and the
\* minimum precedence of parse_term
PostfixPrecedence == 7

Infix(i, b, precedence) == [some |-> TRUE, i |-> i, b |-> b, precedence |-> precedence]

from_token(token) ==
    CASE Kind(token, "Dot") -> Infix("Field", "", PostfixPrecedence)
      [] Is(token, "OpenDelim", "Bracket") -> Infix("Index", "", PostfixPrecedence)
      [] Is(token, "OpenDelim", "Paren") -> Infix("Call", "", PostfixPrecedence)
      [] OTHER ->
            IF binary_of_token(token) = ""
            THEN [some |-> FALSE, i |-> "", b |-> "", precedence |-> 0]
            ELSE Infix("Binary", binary_of_token(token),
                       binary_precedence(binary_of_token(token)))

(***************************************************************************)
(* Expressions.  A parse function returns [e, span, p]: the expression,    *)
(* its span and the parser it leaves; parse_prefix_expression also returns *)
(* the parenthesized flag.                                                 *)
(***************************************************************************)
RECURSIVE parse_expression(_, _)
RECURSIVE expression_loop(_, _, _, _, _)
RECURSIVE parse_prefix_expression(_)
RECURSIVE parse_args(_, _)
RECURSIVE args_loop(_, _, _)

IdentKeywords == {"true", "false", "self", "other", "all", "noone", "global", "local"}

\* the tokens of the first arm of parse_prefix_expression
is_ident_token(token) ==
    Kind(token, "Ident") \/ (Kind(token, "Keyword") /\ token.v \in IdentKeywords)

\* the unary operator of a token, "" if none
unary_of_token(token) ==
    CASE Is(token, "BinOp", "Plus") -> "Positive"
      [] Is(token, "BinOp", "Minus") -> "Negate"
      [] Kind(token, "Bang") \/ Is(token, "Keyword", "not") -> "Invert"
      [] Kind(token, "Tilde") -> "BitInvert"
      [] OTHER -> ""

\* the right operand parsed with the precedence of the operator itself
right_precedence_same(precedence) == precedence

\* the minimum precedence of the right operand of a binary operator
right_precedence(precedence) == precedence + 1

\* the span of a binary expression
binary_span(left_span, right_span) == Span(left_span.low, right_span.high)

\* the Index arm without the test of the flag
index_arm_any(left, parens) == left.k \in {"Ident", "Field"}

\* the guard of the Index arm of parse_expression
index_arm(left, parens) == left.k \in {"Ident", "Field"} /\ ~parens

\* the flag after a field access or an index has been applied
postfix_parens == FALSE

\* the parenthesis arm returning the span of the parentheses
paren_result_outer(inner, open, close) ==
    [e |-> inner.e, span |-> Span(open.low, close.high), parens |-> TRUE]

\* what the parenthesis arm returns for the inner (expr, span) and the
\* spans of the two parentheses
paren_result(inner, open, close) == [e |-> inner.e, span |-> inner.span, parens |-> TRUE]

\* parse_term reading a whole expression
parse_term_expression(p) == parse_expression(p, 0)

parse_term(p) == parse_expression(p, PostfixPrecedence)

\* the last arm of parse_prefix_expression leaving the unexpected token unread
prefix_error_unread(p, q, low) ==
    [e |-> Real(F64Zero), span |-> Span(low, low), parens |-> FALSE,
     p |-> error(p, p.span, "unexpected _; expected expression")]

\* the last arm of parse_prefix_expression: p is the parser before the
\* token was taken and q the parser after
prefix_error(p, q, low) ==
    [e |-> Real(F64Zero), span |-> Span(low, low), parens |-> FALSE,
     p |-> error(q, q.span, "unexpected _; expected expression")]

\* the loop of parse_expression entered with the prefix expression
expression_from(pre, min_precedence) ==
    expression_loop(pre.p, min_precedence, pre.e, pre.span, pre.parens)

parse_expression(p, min_precedence) ==
    expression_from(parse_prefix_expression(p), min_precedence)

\* the Call arm after parse_args
call_applied(a, min_precedence, left, left_span) ==
    expression_loop(a.p, min_precedence, Call(Pair(left, left_span), a.args),
                    Span(left_span.low, a.high), TRUE)

\* the Index arm after parse_args
index_applied(a, min_precedence, left, left_span) ==
    expression_loop(a.p, min_precedence, Index(Pair(left, left_span), a.args),
                    Span(left_span.low, a.high), postfix_parens)

\* the Field arm after the identifier fld has been taken
field_applied(fld, min_precedence, left, left_span) ==
    expression_loop(fld.p, min_precedence, Field(Pair(left, left_span), fld.tok.v, fld.span),
                    Span(left_span.low, fld.span.high), postfix_parens)

\* the Field arm after the dot
field_arm(q, min_precedence, left, left_span) ==
    IF Kind(q.current, "Ident")
    THEN field_applied(advance_token(q), min_precedence, left, left_span)
    ELSE [e |-> left, span |-> left_span,
          p |-> error(q, q.span, "unexpected _; expected identifier")]

\* the Binary arm after the right operand r
binary_applied(r, op, min_precedence, left, left_span, parens) ==
    expression_loop(r.p, min_precedence, Binary(op, Pair(left, left_span), Pair(r.e, r.span)),
                    binary_span(left_span, r.span), parens)

\* one turn of the loop of parse_expression for the infix f of the current token
expression_step(p, min_precedence, left, left_span, parens, f) ==
    IF ~f.some \/ f.precedence < min_precedence
    THEN [e |-> left, span |-> left_span, p |-> p]
    ELSE IF left.k = "Ident" /\ f.i = "Call"
    THEN call_applied(parse_args(p, "Paren"), min_precedence, left, left_span)
    ELSE IF f.i = "Index" /\ index_arm(left, parens)
    THEN index_applied(parse_args(p, "Bracket"), min_precedence, left, left_span)
    ELSE IF f.i = "Field" /\ left.k \in {"Ident", "Field", "Index"}
    THEN field_arm(advance_token(p).p, min_precedence, left, left_span)
    ELSE IF f.i = "Binary"
    THEN binary_applied(parse_expression(advance_token(p).p, right_precedence(f.precedence)),
                        f.b, min_precedence, left, left_span, parens)
    ELSE [e |-> left, span |-> left_span, p |-> p]

expression_loop(p, min_precedence, left, left_span, parens) ==
    expression_step(p, min_precedence, left, left_span, parens, from_token(p.current))

\* the Real arm after the conversion r
real_arm(r, span) == [e |-> Real(r.value), span |-> span, parens |-> FALSE, p |-> r.p]

\* the unary arm after the operand r
unary_arm(op, low, r) ==
    [e |-> Unary(op, Pair(r.e, r.span)), span |-> Span(low, r.span.high),
     parens |-> TRUE, p |-> r.p]

\* the parenthesis arm at the closing parenthesis
paren_closed(res, p) ==
    [e |-> res.e, span |-> res.span, parens |-> res.parens,
     p |-> expect(p, "CloseDelim", "Paren")]

\* the parenthesis arm after the inner expression r
paren_arm(r, span) == paren_closed(paren_result(r, span, r.p.span), r.p)

\* the match of parse_prefix_expression on the token a that was taken
prefix_of(p, low, a) ==
    IF is_ident_token(a.tok)
    THEN [e |-> Ident(a.tok.v), span |-> a.span, parens |-> FALSE, p |-> a.p]
    ELSE IF Kind(a.tok, "Real")
    THEN real_arm(real_literal(a.p, a.tok.v, a.span), a.span)
    ELSE IF Kind(a.tok, "String")
    THEN [e |-> String(SubSeq(a.tok.v, 2, Len(a.tok.v) - 1)), span |-> a.span,
          parens |-> FALSE, p |-> a.p]
    ELSE IF unary_of_token(a.tok) # ""
    THEN unary_arm(unary_of_token(a.tok), low, parse_term(a.p))
    ELSE IF Is(a.tok, "OpenDelim", "Paren")
    THEN paren_arm(parse_expression(a.p, 0), a.span)
    ELSE prefix_error(p, a.p, low)

parse_prefix_expression(p) == prefix_of(p, p.span.low, advance_token(p))

\* the end of parse_args, at the closing delimiter
args_end(l, delim) ==
    [args |-> l.args, high |-> l.p.span.high,
     p |-> IF ~Is(l.p.current, "CloseDelim", delim)
           THEN error(l.p, l.p.span, "unexpected _; expected _ or ,")
           ELSE advance_token(l.p).p]

parse_args(p, delim) == args_end(args_loop(advance_token(p).p, delim, <<>>), delim)

\* the loop of parse_args after an argument: on at a comma, out otherwise
args_next(q, delim, more) ==
    IF Kind(q.current, "Comma") THEN args_loop(advance_token(q).p, delim, more)
    ELSE [args |-> more, p |-> q]

\* the loop of parse_args after the argument r
args_item(p, delim, args, r) ==
    args_next(Progress(p, r.p), delim, Append(args, Pair(r.e, r.span)))

args_loop(p, delim, args) ==
    IF Is(p.current, "CloseDelim", delim) \/ Kind(p.current, "Eof")
    THEN [args |-> args, p |-> p]
    ELSE args_item(p, delim, args, parse_expression(p, 0))

(***************************************************************************)
(* Statements.  A parse function returns [s, span, p].  An Option is a     *)
(* sequence of length at most one.                                         *)
(***************************************************************************)
RECURSIVE parse_statement(_)
RECURSIVE parse_block(_)
RECURSIVE block_loop(_, _)
RECURSIVE parse_if(_)
RECURSIVE parse_repeat(_)
RECURSIVE parse_while_or_with(_)
RECURSIVE parse_do(_)
RECURSIVE parse_for(_)
RECURSIVE parse_switch(_)

Stmt(s, span, p) == [s |-> s, span |-> span, p |-> p]

\* the assignment operator of a token: [some, op], op "None" for = and :=
assign_op(token) ==
    CASE Kind(token, "Eq") \/ Kind(token, "ColonEq") -> [some |-> TRUE, op |-> "None"]
      [] Kind(token, "BinOpEq") -> [some |-> TRUE, op |-> from_binop(token.v)]
      [] OTHER -> [some |-> FALSE, op |-> ""]

\* a leading call that is not promoted to an Invoke
is_invoke_never(lvalue) == FALSE

\* whether the leading term makes the statement an Invoke
is_invoke(lvalue) == lvalue.k = "Call"

\* the statement of an lvalue that no assignment operator follows
error_statement(x) == Stmt([k |-> "Error", e |-> x.e], x.span, x.p)

\* the assignment of the rvalue r to the lvalue l
assign_statement(low, op, l, r) ==
    Stmt([k |-> "Assign", op |-> op, l |-> Pair(l.e, l.span), r |-> Pair(r.e, r.span)],
         Span(low, r.span.high), r.p)

\* parse_assign_or_invoke after the leading term l, op the assignment
\* operator of the token that follows it
assign_or_invoke(low, l, op) ==
    IF is_invoke(l.e) THEN Stmt([k |-> "Invoke", call |-> l.e], l.span, l.p)
    ELSE IF ~op.some
    THEN error_statement(
             parse_term(error(l.p, l.p.span, "unexpected _; expected assignment operator")))
    ELSE assign_statement(low, op.op, l, parse_expression(advance_token(l.p).p, 0))

assign_place(low, l) == assign_or_invoke(low, l, assign_op(l.p.current))

parse_assign_or_invoke(p) == assign_place(p.span.low, parse_term(p))

RECURSIVE declare_loop(_, _)
\* the comma after a declared name
declare_comma(q) == IF Kind(q.current, "Comma") THEN advance_token(q).p ELSE q

declare_loop(p, idents) ==
    IF Kind(p.current, "Semicolon") \/ Kind(p.current, "Eof") \/ ~Kind(p.current, "Ident")
    THEN [idents |-> idents, p |-> p]
    ELSE declare_loop(declare_comma(advance_token(p).p),
                      Append(idents, [sym |-> p.current.v, span |-> p.span]))

\* what a declaration does at its end, where it looks for the semicolon
declare_end(p) == expect(p, "Semicolon", "")

declare_kind(token) == IF Is(token, "Keyword", "var") THEN "Local" ELSE "Global"

\* the declaration of the names l that the loop collected
declare_statement(low, declare, l) ==
    Stmt([k |-> "Declare", declare |-> declare, idents |-> l.idents],
         Span(low, l.p.span.high), declare_end(l.p))

parse_declare(p) ==
    declare_statement(p.span.low, declare_kind(p.current),
                      declare_loop(advance_token(p).p, <<>>))

IsBlockEnd(token) ==
    Is(token, "CloseDelim", "Brace") \/ Is(token, "Keyword", "end") \/ Kind(token, "Eof")

\* the loop of parse_block after the statement r
block_push(stmts, r) == block_loop(r.p, Append(stmts, Pair(r.s, r.span)))

block_loop(p, stmts) ==
    IF IsBlockEnd(p.current) \/ p.stalled THEN [stmts |-> stmts, p |-> p]
    ELSE block_push(stmts, parse_statement(p))

\* the end of parse_block: at the closing token, or at the end of the file
block_end(low, stmts, q) ==
    IF Kind(q.current, "Eof")
    THEN Stmt([k |-> "Block", stmts |-> stmts], Span(low, q.span.low),
              error(q, q.span, "unexpected end of file; expected }"))
    ELSE Stmt([k |-> "Block", stmts |-> stmts], Span(low, q.span.high),
              advance_token(q).p)

block_statement(low, l) == block_end(low, l.stmts, l.p)

parse_block(p) == block_statement(p.span.low, block_loop(advance_token(p).p, <<>>))

\* an optional keyword: taken when it is the current token
skip_keyword(p, word) == IF Is(p.current, "Keyword", word) THEN advance_token(p).p ELSE p

\* parse_if after the else branch f
if_else(low, c, t, f) ==
    Stmt([k |-> "If", cond |-> Pair(c.e, c.span), then |-> Pair(t.s, t.span),
          else |-> <<Pair(f.s, f.span)>>], Span(low, f.span.high), f.p)

\* parse_if after the then branch t
if_then(low, c, t) ==
    IF Is(t.p.current, "Keyword", "else")
    THEN if_else(low, c, t, parse_statement(advance_token(t.p).p))
    ELSE Stmt([k |-> "If", cond |-> Pair(c.e, c.span), then |-> Pair(t.s, t.span),
               else |-> <<>>], Span(low, t.span.high), t.p)

\* parse_if after the condition c
if_cond(low, c) == if_then(low, c, parse_statement(skip_keyword(c.p, "then")))

parse_if(p) == if_cond(p.span.low, parse_expression(advance_token(p).p, 0))

\* parse_repeat after the body b
repeat_body(low, c, b) ==
    Stmt([k |-> "Repeat", count |-> Pair(c.e, c.span), body |-> Pair(b.s, b.span)],
         Span(low, b.span.high), b.p)

\* parse_repeat after the count c
repeat_count(low, c) == repeat_body(low, c, parse_statement(c.p))

parse_repeat(p) == repeat_count(p.span.low, parse_expression(advance_token(p).p, 0))

while_kind(token) == IF Is(token, "Keyword", "while") THEN "While" ELSE "With"

\* parse_while_or_with after the body b
while_body(low, kind, c, b) ==
    Stmt([k |-> kind, cond |-> Pair(c.e, c.span), body |-> Pair(b.s, b.span)],
         Span(low, b.span.high), b.p)

\* parse_while_or_with after the condition c
while_cond(low, kind, c) ==
    while_body(low, kind, c, parse_statement(skip_keyword(c.p, "do")))

parse_while_or_with(p) ==
    while_cond(p.span.low, while_kind(p.current), parse_expression(advance_token(p).p, 0))

\* parse_do after the condition c
do_cond(low, b, c) ==
    Stmt([k |-> "Do", body |-> Pair(b.s, b.span), cond |-> Pair(c.e, c.span)],
         Span(low, c.span.high), c.p)

\* parse_do after the body b
do_body(low, b) == do_cond(low, b, parse_expression(expect(b.p, "Keyword", "until"), 0))

parse_do(p) == do_body(p.span.low, parse_statement(advance_token(p).p))

\* parse_for after the body; high was taken at the closing parenthesis
for_body(low, init, cond, next, high, body) ==
    Stmt([k |-> "For", init |-> Pair(init.s, init.span), cond |-> Pair(cond.e, cond.span),
          next |-> Pair(next.s, next.span), body |-> Pair(body.s, body.span)],
         Span(low, high), body.p)

\* parse_for after the statement next
for_next(low, init, cond, next) ==
    for_body(low, init, cond, next, next.p.span.high,
             parse_statement(expect(next.p, "CloseDelim", "Paren")))

\* parse_for after the condition cond
for_cond(low, init, cond) ==
    for_next(low, init, cond,
             parse_statement(IF Kind(cond.p.current, "Semicolon")
                             THEN advance_token(cond.p).p ELSE cond.p))

\* parse_for after the statement init
for_init(low, init) == for_cond(low, init, parse_expression(init.p, 0))

parse_for(p) ==
    for_init(p.span.low, parse_statement(expect(advance_token(p).p, "OpenDelim", "Paren")))

\* the test for the opening of the body of a switch
switch_open(q) ==
    IF ~Is(q.current, "OpenDelim", "Brace") /\ ~Is(q.current, "Keyword", "begin")
    THEN error(q, q.span, "unexpected _; expected {")
    ELSE q

\* parse_switch after the body b
switch_body(low, c, b) ==
    Stmt([k |-> "Switch", e |-> Pair(c.e, c.span), body |-> b.s.stmts],
         Span(low, b.span.high), b.p)

\* parse_switch after the expression c
switch_expr(low, c) == switch_body(low, c, parse_block(switch_open(c.p)))

parse_switch(p) == switch_expr(p.span.low, parse_expression(advance_token(p).p, 0))

jump_of(token) ==
    CASE Is(token, "Keyword", "break") -> "Break"
      [] Is(token, "Keyword", "continue") -> "Continue"
      [] Is(token, "Keyword", "exit") -> "Exit"

parse_jump(p) ==
    Stmt([k |-> "Jump", jump |-> jump_of(p.current)], Span(p.span.low, p.span.high),
         advance_token(p).p)

\* parse_return after the expression r
return_expr(low, r) == Stmt([k |-> "Return", e |-> Pair(r.e, r.span)], Span(low, r.span.high), r.p)

parse_return(p) == return_expr(p.span.low, parse_expression(advance_token(p).p, 0))

\* parse_case at the colon, e the Option of the case expression
case_colon(low, e, q) ==
    Stmt([k |-> "Case", e |-> e], Span(low, q.span.high), expect(q, "Colon", ""))

\* parse_case after the expression r of a `case`
case_expr(low, r) == case_colon(low, <<Pair(r.e, r.span)>>, r.p)

parse_case(p) ==
    IF Is(p.current, "Keyword", "case")
    THEN case_expr(p.span.low, parse_expression(advance_token(p).p, 0))
    ELSE case_colon(p.span.low, <<>>, advance_token(p).p)

\* the dispatch of parse_statement on the current token
statement_kind(token) ==
    CASE Is(token, "Keyword", "var") \/ Is(token, "Keyword", "globalvar") -> "declare"
      [] Is(token, "OpenDelim", "Brace") \/ Is(token, "Keyword", "begin") -> "block"
      [] Is(token, "Keyword", "if") -> "if"
      [] Is(token, "Keyword", "repeat") -> "repeat"
      [] Is(token, "Keyword", "while") \/ Is(token, "Keyword", "with") -> "while_or_with"
      [] Is(token, "Keyword", "do") -> "do"
      [] Is(token, "Keyword", "for") -> "for"
      [] Is(token, "Keyword", "switch") -> "switch"
      [] Is(token, "Keyword", "break") \/ Is(token, "Keyword", "continue")
            \/ Is(token, "Keyword", "exit") -> "jump"
      [] Is(token, "Keyword", "return") -> "return"
      [] Is(token, "Keyword", "case") \/ Is(token, "Keyword", "default") -> "case"
      [] OTHER -> "assign_or_invoke"

\* the end of parse_statement reading one semicolon at most
semicolons_once(p, high) ==
    IF Kind(p.current, "Semicolon") THEN [high |-> p.span.high, p |-> advance_token(p).p]
    ELSE [high |-> high, p |-> p]

\* the loop at the end of parse_statement: [high, p] after the semicolons
RECURSIVE semicolons(_, _)
semicolons(p, high) ==
    IF Kind(p.current, "Semicolon") THEN semicolons(advance_token(p).p, p.span.high)
    ELSE [high |-> high, p |-> p]

\* the match of parse_statement
statement_of(p, kind) ==
    CASE kind = "declare" -> parse_declare(p)
      [] kind = "block" -> parse_block(p)
      [] kind = "if" -> parse_if(p)
      [] kind = "repeat" -> parse_repeat(p)
      [] kind = "while_or_with" -> parse_while_or_with(p)
      [] kind = "do" -> parse_do(p)
      [] kind = "for" -> parse_for(p)
      [] kind = "switch" -> parse_switch(p)
      [] kind = "jump" -> parse_jump(p)
      [] kind = "return" -> parse_return(p)
      [] kind = "case" -> parse_case(p)
      [] OTHER -> parse_assign_or_invoke(p)

\* parse_statement after the semicolons t that follow the statement r
statement_end(p, r, t) == Stmt(r.s, Span(p.span.low, t.high), Progress(p, t.p))

statement_semicolons(p, r) == statement_end(p, r, semicolons(r.p, r.span.high))

parse_statement(p) == statement_semicolons(p, statement_of(p, statement_kind(p.current)))

RECURSIVE program_loop(_, _, _)
\* the loop of parse_program after the statement r
program_push(stmts, r) == program_loop(r.p, Append(stmts, Pair(r.s, r.span)), r.span.high)

program_loop(p, stmts, high) ==
    IF Kind(p.current, "Eof") \/ p.stalled THEN [stmts |-> stmts, high |-> high, p |-> p]
    ELSE program_push(stmts, parse_statement(p))

\* the block of the statements many of a program without braces
program_block(low, many) ==
    Stmt([k |-> "Block", stmts |-> many.stmts], Span(low, many.high), many.p)

\* the end of parse_program: the test for the end of the file
program_end(low, r) ==
    Stmt(r.s, Span(low, r.span.high),
         IF ~Kind(r.p.current, "Eof") THEN error(r.p, r.p.span, "expected end of file")
         ELSE r.p)

parse_program(p) ==
    program_end(p.span.low,
                IF Is(p.current, "OpenDelim", "Brace") THEN parse_statement(p)
                ELSE program_block(p.span.low, program_loop(p, <<>>, p.span.low)))

(***************************************************************************)
(* Sources.  Lexemes are written with the width of their text; W puts one  *)
(* blank before a lexeme and J joins it to the lexeme before.              *)
(***************************************************************************)
W(t, v, w) == Lexeme(t, v, w, 1)

J(lexeme) == [lexeme EXCEPT !.g = 0]

Id(v) == W("Ident", v, 1)

Num(text) == W("Real", text, Len(text))

OpenParen == W("OpenDelim", "Paren", 1)

CloseParen == J(W("CloseDelim", "Paren", 1))

\* the token of every binary operator of the language
BinaryLexemes ==
    { W("Lt", "", 1), W("Le", "", 2), W("Eq", "", 1), W("EqEq", "", 2), W("Ne", "", 2),
      W("Ge", "", 2), W("Gt", "", 1),
      W("BinOp", "Plus", 1), W("BinOp", "Minus", 1), W("BinOp", "Star", 1),
      W("BinOp", "Slash", 1), W("BinOp", "Ampersand", 1), W("BinOp", "Pipe", 1),
      W("BinOp", "Caret", 1),
      W("Keyword", "div", 3), W("Keyword", "mod", 3),
      W("And", "", 2), W("Keyword", "and", 3), W("Or", "", 2), W("Keyword", "or", 2),
      W("Xor", "", 2), W("Keyword", "xor", 3), W("Shl", "", 2), W("Shr", "", 2) }

\* the token of every unary operator of the language
UnaryLexemes ==
    { W("BinOp", "Plus", 1), W("BinOp", "Minus", 1), W("Bang", "", 1),
      W("Keyword", "not", 3), W("Tilde", "", 1) }

\* the source of tests::precedence, `x + y * (3 + z)`
PrecedenceSource ==
    << J(Id("x")), W("BinOp", "Plus", 1), Id("y"), W("BinOp", "Star", 1), OpenParen,
       J(Num(<<"3">>)), W("BinOp", "Plus", 1), Id("z"), CloseParen >>

\* operands: an identifier, a literal, a parenthesized sum
Operands ==
    { <<Id("a")>>, <<Num(<<"3">>)>>,
      <<OpenParen, J(Id("y")), W("BinOp", "Plus", 1), Id("z"), CloseParen>> }

\* a op1 b op2 c
TwoOperatorSources ==
    { a \o <<op1>> \o b \o <<op2>> \o c :
        op1 \in BinaryLexemes, op2 \in BinaryLexemes,
        a \in {<<Id("a")>>}, b \in Operands, c \in {<<Id("c")>>} }

OpenBracket == J(W("OpenDelim", "Bracket", 1))

CloseBracket == J(W("CloseDelim", "Bracket", 1))

\* terms: an operand, or an identifier with a field, index or call postfix
Terms ==
    Operands \cup
    { <<Id("a"), J(W("Dot", "", 1)), J(Id("f"))>>,
      <<Id("a"), OpenBracket, J(Num(<<"3">>)), CloseBracket>>,
      <<Id("a"), J(OpenParen), J(Num(<<"3">>)), CloseParen>> }

\* op a bin b
UnarySources ==
    { <<u>> \o a \o <<bin>> \o b :
        u \in UnaryLexemes, bin \in BinaryLexemes, a \in Terms, b \in {<<Id("b")>>} }

Dot == J(W("Dot", "", 1))

IndexSuffix == <<OpenBracket, J(Num(<<"3">>)), CloseBracket>>

\* expressions a `[` is written after, each with its tree and whether it is
\* an identifier or a field access that is not written in parentheses
PostfixBases ==
    { [lex |-> <<J(Id("a"))>>, shape |-> Ident("a"), plain |-> TRUE],
      [lex |-> <<J(Id("a")), Dot, J(Id("f"))>>,
       shape |-> [k |-> "Field", e |-> Ident("a"), field |-> "f"], plain |-> TRUE],
      [lex |-> <<J(OpenParen), J(Id("a")), CloseParen>>, shape |-> Ident("a"), plain |-> FALSE],
      [lex |-> <<J(OpenParen), J(Id("a")), Dot, J(Id("f")), CloseParen>>,
       shape |-> [k |-> "Field", e |-> Ident("a"), field |-> "f"], plain |-> FALSE],
      [lex |-> <<J(Id("a")), J(OpenParen), J(Num(<<"3">>)), CloseParen>>,
       shape |-> [k |-> "Call", f |-> Ident("a"), args |-> <<Real(Three)>>], plain |-> FALSE],
      [lex |-> <<J(OpenParen), J(Id("a")), CloseParen, J(OpenParen), J(Num(<<"3">>)), CloseParen>>,
       shape |-> [k |-> "Call", f |-> Ident("a"), args |-> <<Real(Three)>>], plain |-> FALSE],
      [lex |-> <<J(OpenParen), J(W("BinOp", "Minus", 1)), J(Id("a")), CloseParen>>,
       shape |-> [k |-> "Unary", op |-> "Negate", e |-> Ident("a")], plain |-> FALSE],
      [lex |-> <<J(Id("a"))>> \o IndexSuffix,
       shape |-> [k |-> "Index", e |-> Ident("a"), args |-> <<Real(Three)>>], plain |-> FALSE],
      [lex |-> <<J(OpenParen), J(Id("a")), CloseParen, Dot, J(Id("f"))>>,
       shape |-> [k |-> "Field", e |-> Ident("a"), field |-> "f"], plain |-> TRUE],
      [lex |-> <<J(Id("a"))>> \o IndexSuffix \o <<Dot, J(Id("f"))>>,
       shape |-> [k |-> "Field",
                  e |-> [k |-> "Index", e |-> Ident("a"), args |-> <<Real(Three)>>],
                  field |-> "f"], plain |-> TRUE] }

\* base [3]
PostfixSources == { b.lex \o IndexSuffix : b \in PostfixBases }

ExprSources == {PrecedenceSource} \cup TwoOperatorSources \cup UnarySources \cup PostfixSources

(***************************************************************************)
(* The specification of parse_expression(0), as tests::precedence calls    *)
(* it: a parser is built over a source and the expression is parsed.       *)
(***************************************************************************)
InitExpr ==
    /\ source \in ExprSources
    /\ parser = Parser_new(source)
    /\ result = <<>>
    /\ pc = "ready"
    /\ NoBackEnd

\* the expression and the parser that parse_expression returned
ExpressionReturns(r) ==
    /\ result' = <<Pair(r.e, r.span)>>
    /\ parser' = r.p

Expression ==
    /\ pc = "ready"
    /\ ExpressionReturns(parse_expression(parser, 0))
    /\ pc' = "done"
    /\ UNCHANGED source
    /\ UNCHANGED <<heap, function, project>>

NextExpr == Expression

SpecExpr == InitExpr /\ [][NextExpr]_vars

\* the result of tests::precedence
PrecedenceExpected ==
    Pair(Binary("Add", Pair(Ident("x"), Span(0, 1)),
           Pair(Binary("Multiply", Pair(Ident("y"), Span(4, 5)),
                  Pair(Binary("Add", Pair(Real(F64("fin", FALSE, <<3>>, 0)), Span(9, 10)),
                                     Pair(Ident("z"), Span(13, 14))),
                       Span(9, 14))),
                Span(4, 14))),
         Span(0, 14))

PrecedenceTest ==
    (pc = "done" /\ source = PrecedenceSource) => result[1] = PrecedenceExpected

(***************************************************************************)
(* Reading results: the tree of an expression without its spans.           *)
(***************************************************************************)
RECURSIVE Shape(_)
Shape(n) ==
    CASE n.k = "Binary" -> [k |-> "Binary", op |-> n.op, l |-> Shape(n.l.x), r |-> Shape(n.r.x)]
      [] n.k = "Unary" -> [k |-> "Unary", op |-> n.op, e |-> Shape(n.e.x)]
      [] n.k = "Field" -> [k |-> "Field", e |-> Shape(n.e.x), field |-> n.field]
      [] n.k = "Index" ->
            [k |-> "Index", e |-> Shape(n.e.x),
             args |-> [i \in 1..Len(n.args) |-> Shape(n.args[i].x)]]
      [] n.k = "Call" ->
            [k |-> "Call", f |-> Shape(n.f.x),
             args |-> [i \in 1..Len(n.args) |-> Shape(n.args[i].x)]]
      [] OTHER -> n

Bin(op, l, r) == [k |-> "Binary", op |-> op, l |-> l, r |-> r]

\* the tree an operand of Terms stands for
OperandShape(lexemes) ==
    CASE lexemes = <<Id("a")>> -> Ident("a")
      [] lexemes = <<Num(<<"3">>)>> -> Real(Three)
      [] Len(lexemes) = 5 -> Bin("Add", Ident("y"), Ident("z"))
      [] Len(lexemes) = 3 -> [k |-> "Field", e |-> Ident("a"), field |-> "f"]
      [] lexemes[2].v = "Bracket" -> [k |-> "Index", e |-> Ident("a"), args |-> <<Real(Three)>>]
      [] OTHER -> [k |-> "Call", f |-> Ident("a"), args |-> <<Real(Three)>>]

\* the level of a binary operator token in the precedence table of the
\* language, lowest first
Level(lexeme) ==
    CASE lexeme.t \in {"And", "Or", "Xor"} \/ lexeme.v \in {"and", "or", "xor"} -> 1
      [] lexeme.t \in {"Lt", "Le", "Eq", "EqEq", "Ne", "Ge", "Gt"} -> 2
      [] lexeme.v \in {"Ampersand", "Caret", "Pipe"} -> 3
      [] lexeme.t \in {"Shl", "Shr"} -> 4
      [] lexeme.v \in {"Plus", "Minus"} -> 5
      [] OTHER -> 6

OpName(lexeme) == binary_of_token(Tok(lexeme.t, lexeme.v))

\* the parts of a source a op1 b op2 c
FirstOp == source[2]

SecondOp == source[Len(source) - 1]

Middle == SubSeq(source, 3, Len(source) - 2)

\* C1: parse_expression(0) groups two binary operators of different levels
\* by the precedence table: in `a op1 b op2 c` the operator of the higher
\* level is the inner node of the other one, whichever comes first, a
\* parenthesized operand is one operand, and the whole source is consumed
\* without a diagnostic; `x + y * (3 + z)` gives the tree of tests::precedence.
C1_Precedence ==
    pc = "done" =>
        /\ source = PrecedenceSource => result[1] = PrecedenceExpected
        /\ (source \in TwoOperatorSources /\ Level(FirstOp) < Level(SecondOp)) =>
              /\ Shape(result[1].x) =
                    Bin(OpName(FirstOp), Ident("a"),
                        Bin(OpName(SecondOp), OperandShape(Middle), Ident("c")))
              /\ Kind(parser.current, "Eof") /\ parser.errors = <<>>
        /\ (source \in TwoOperatorSources /\ Level(FirstOp) > Level(SecondOp)) =>
              /\ Shape(result[1].x) =
                    Bin(OpName(SecondOp),
                        Bin(OpName(FirstOp), Ident("a"), OperandShape(Middle)), Ident("c"))
              /\ Kind(parser.current, "Eof") /\ parser.errors = <<>>

\* a parse of `a op1 (y + z) op2 c` with op1 of a lower level than op2
C1_Witness ==
    /\ pc = "done"
    /\ source \in TwoOperatorSources
    /\ Level(FirstOp) < Level(SecondOp)
    /\ Len(Middle) = 5
    /\ result[1].x.r.x.l.x.k = "Binary"

\* the unary operator a token is in the language
UnaryName(lexeme) ==
    CASE lexeme.v = "Plus" -> "Positive"
      [] lexeme.v = "Minus" -> "Negate"
      [] lexeme.t = "Tilde" -> "BitInvert"
      [] OTHER -> "Invert"

\* C6: a unary operator binds tighter than every binary operator: for each
\* of + - ! not ~, each binary operator bin and each term a (an operand with
\* field, index or call postfixes), `op a bin b` is parsed as
\* Binary(bin, Unary(op, a), b), and the unary operator never takes the
\* binary expression as its operand.
C6_UnaryBindsTighter ==
    (pc = "done" /\ source \in UnarySources) =>
        /\ Shape(result[1].x) =
              Bin(OpName(SecondOp),
                  [k |-> "Unary", op |-> UnaryName(source[1]),
                   e |-> OperandShape(SubSeq(source, 2, Len(source) - 2))],
                  Ident("b"))
        /\ Kind(parser.current, "Eof") /\ parser.errors = <<>>

\* a parse of `op a bin b` whose result is a binary node over a unary node
C6_Witness ==
    /\ pc = "done"
    /\ source \in UnarySources
    /\ result[1].x.k = "Binary"
    /\ result[1].x.l.x.k = "Unary"
    /\ result[1].x.l.x.e.x.k = "Index"

\* the base of a source of PostfixSources
PostfixBase == CHOOSE b \in PostfixBases : b.lex \o IndexSuffix = source

\* C7: a `[` becomes an Expr::Index only of an identifier or field access
\* that does not carry the parenthesized flag: after such a base, `base[3]`
\* is Index(base, [3]); after a base written in parentheses, a call result,
\* a parenthesized unary expression or an index, the `[` is left unread and
\* the base is returned as it is; a field access clears the flag, so
\* `(a).f[3]` and `a[3].f[3]` are indexed again.
C7_IndexOnlyUnparenthesized ==
    (pc = "done" /\ source \in PostfixSources) =>
        IF PostfixBase.plain
        THEN /\ Shape(result[1].x) =
                   [k |-> "Index", e |-> PostfixBase.shape, args |-> <<Real(Three)>>]
             /\ Kind(parser.current, "Eof")
        ELSE /\ Shape(result[1].x) = PostfixBase.shape
             /\ Is(parser.current, "OpenDelim", "Bracket")
             /\ parser.reader.next = Len(PostfixBase.lex) + 2

\* `(a)[3]` parsed: the identifier is returned and the `[` is left
C7_Witness ==
    /\ pc = "done"
    /\ source \in PostfixSources
    /\ ~PostfixBase.plain
    /\ result[1].x = Ident("a")
    /\ Is(parser.current, "OpenDelim", "Bracket")

\* the node of the middle operand b of a parsed source a op1 b op2 c
MiddleNode ==
    IF Level(FirstOp) < Level(SecondOp) THEN result[1].x.r.x.l ELSE result[1].x.l.x.r

\* every binary node spans from the low of its left operand to the high of
\* its right operand
RECURSIVE BinarySpans(_)
BinarySpans(pair) ==
    LET n == pair.x
    IN  CASE n.k = "Binary" ->
                /\ pair.span = Span(n.l.span.low, n.r.span.high)
                /\ BinarySpans(n.l) /\ BinarySpans(n.r)
          [] n.k = "Unary" -> BinarySpans(n.e)
          [] n.k = "Field" -> BinarySpans(n.e)
          [] n.k \in {"Index", "Call"} -> \A i \in 1..Len(n.args) : BinarySpans(n.args[i])
          [] OTHER -> TRUE

\* the span of the i-th lexeme of the source
LexemeSpan(i) == Span(LowOf(source, i), LowOf(source, i) + source[i].w)

\* C10: spans are the byte offsets of the source: an identifier or literal
\* has the span of its token, a binary expression spans from the low of its
\* left operand to the high of its right operand, and a parenthesized
\* expression has the span of the expression inside, without the
\* parentheses; `x + y * (3 + z)` gives [9,14), [4,14) and [0,14).
C10_Spans ==
    pc = "done" =>
        /\ BinarySpans(result[1])
        /\ source = PrecedenceSource =>
              /\ result[1].span = Span(0, 14)
              /\ result[1].x.r.span = Span(4, 14)
              /\ result[1].x.r.x.r.span = Span(9, 14)
        /\ source \in TwoOperatorSources =>
              /\ result[1].span = Span(LexemeSpan(1).low, LexemeSpan(Len(source)).high)
              /\ Len(Middle) = 1 => MiddleNode.span = LexemeSpan(3)
              /\ Len(Middle) = 5 =>
                    /\ MiddleNode.span = Span(LexemeSpan(4).low, LexemeSpan(6).high)
                    /\ MiddleNode.x.l.span = LexemeSpan(4)
                    /\ MiddleNode.x.r.span = LexemeSpan(6)

\* a parse of `a op1 (y + z) op2 c`: the operand in parentheses starts after
\* the `(` and ends before the `)`
C10_Witness ==
    /\ pc = "done"
    /\ source \in TwoOperatorSources
    /\ Len(Middle) = 5
    /\ MiddleNode.span.low = LexemeSpan(3).high
    /\ MiddleNode.span.high = LexemeSpan(7).low

(***************************************************************************)
(* The specification of parse_statement: a parser is built over a source   *)
(* and parse_statement is called until the current token is Eof, as the    *)
(* loop of parse_program does.  Each call is recorded with the statement   *)
(* and span it returned, the diagnostics reported so far and the token and *)
(* reader position it left.                                                *)
(***************************************************************************)
Kw(v, w) == W("Keyword", v, w)

Semi == J(W("Semicolon", "", 1))

Comma == J(W("Comma", "", 1))

OpenBrace == W("OpenDelim", "Brace", 1)

CloseBrace == W("CloseDelim", "Brace", 1)

EqLexeme == W("Eq", "", 1)

EqEqLexeme == W("EqEq", "", 2)

\* the token of every assignment operator of the language
AssignLexemes ==
    { EqLexeme, W("ColonEq", "", 2) } \cup
    { W("BinOpEq", v, 2) : v \in {"Plus", "Minus", "Star", "Slash", "Ampersand", "Pipe", "Caret"} }

\* left-hand terms that are no call: a, a.f, a[3]
Lvalues ==
    { <<Id("a")>>, <<Id("a"), Dot, J(Id("f"))>>, <<Id("a")>> \o IndexSuffix }

Rvalues == { <<Num(<<"3">>)>>, <<Id("b"), W("BinOp", "Plus", 1), Id("c")>> }

CallTerm == <<Id("f"), J(OpenParen), J(Num(<<"3">>)), CloseParen>>

\* lhs op rhs
AssignSources == { l \o <<op>> \o r : l \in Lvalues, op \in AssignLexemes, r \in Rvalues }

\* f(3), alone or with more tokens after it
InvokeSources ==
    { CallTerm \o rest :
        rest \in { <<>>, <<EqLexeme, Num(<<"3">>)>>, <<W("BinOpEq", "Plus", 2), Num(<<"3">>)>>,
                   <<Semi>>, <<Id("a"), EqLexeme, Num(<<"3">>)>> } }

\* a left-hand term followed by a token that is no assignment operator
NoAssignSources ==
    { l \o rest :
        l \in Lvalues,
        rest \in { <<>>, <<EqEqLexeme, Num(<<"3">>)>>, <<Num(<<"3">>)>>,
                   <<W("BinOp", "Plus", 1), Num(<<"3">>)>>, <<W("Lt", "", 1), Id("b")>> } }

Assign3(name) == <<Id(name), EqLexeme, Num(<<"3">>)>>

\* one statement of every kind, each ending where a `;` may follow
StatementBases ==
    { [kind |-> "declare", lex |-> <<Kw("var", 3), Id("x")>>],
      [kind |-> "assign", lex |-> Assign3("a")],
      [kind |-> "invoke", lex |-> CallTerm],
      [kind |-> "block", lex |-> <<OpenBrace>> \o Assign3("a") \o <<CloseBrace>>],
      [kind |-> "if", lex |-> <<Kw("if", 2), Id("a")>> \o Assign3("b")],
      [kind |-> "ifelse",
       lex |-> <<Kw("if", 2), Id("a")>> \o Assign3("b") \o <<Kw("else", 4)>> \o Assign3("d")],
      [kind |-> "repeat", lex |-> <<Kw("repeat", 6), Num(<<"3">>)>> \o Assign3("a")],
      [kind |-> "while", lex |-> <<Kw("while", 5), Id("a")>> \o Assign3("b")],
      [kind |-> "with", lex |-> <<Kw("with", 4), Id("a")>> \o Assign3("b")],
      [kind |-> "do", lex |-> <<Kw("do", 2)>> \o Assign3("a") \o <<Kw("until", 5), Id("b")>>],
      [kind |-> "for",
       lex |-> <<Kw("for", 3), OpenParen>> \o Assign3("a") \o
               <<Semi, Id("a"), W("Lt", "", 1), Num(<<"3">>), Semi,
                 Id("a"), W("BinOpEq", "Plus", 2), Num(<<"3">>), CloseParen>> \o Assign3("b")],
      [kind |-> "switch",
       lex |-> <<Kw("switch", 6), Id("a"), OpenBrace, Kw("case", 4), Num(<<"3">>),
                 J(W("Colon", "", 1))>> \o Assign3("b") \o <<CloseBrace>>],
      [kind |-> "jump", lex |-> <<Kw("break", 5)>>],
      [kind |-> "jump", lex |-> <<Kw("continue", 8)>>],
      [kind |-> "jump", lex |-> <<Kw("exit", 4)>>],
      [kind |-> "return", lex |-> <<Kw("return", 6), Id("a")>>] }

Semis(k) == [i \in 1..k |-> Semi]

\* what follows the semicolons: the end of the source, or a statement that
\* begins with an identifier or with a keyword
Followers == { <<>>, Assign3("c"), <<Kw("exit", 4)>> }

SemicolonCases ==
    { [kind |-> b.kind, lex |-> b.lex, k |-> k, follow |-> f] :
        b \in StatementBases, k \in 0..MaxSemis, f \in Followers }

CaseSource(c) == c.lex \o Semis(c.k) \o c.follow

SemicolonSources == { CaseSource(c) : c \in SemicolonCases }

Op(v) == W("BinOp", v, 1)

\* assignments r = E whose right-hand side E holds the token e1, and in one
\* case also e2, where an equality is written, each with the tree of E
EqTemplates(e1, e2) ==
    LET R(lexemes) == <<Id("r"), EqLexeme>> \o lexemes
        E(l, r) == Bin("Eq", l, r)
        a == Ident("a")
        b == Ident("b")
        c == Ident("c")
        d == Ident("d")
    IN  { [lex |-> R(<<Id("a"), e1, Id("b")>>), shape |-> E(a, b)],
          [lex |-> R(<<Id("f"), J(OpenParen), J(Id("a")), e1, Id("b"), CloseParen>>),
           shape |-> [k |-> "Call", f |-> Ident("f"), args |-> <<E(a, b)>>]],
          [lex |-> R(<<OpenParen, J(Id("a")), e1, Id("b"), CloseParen, Op("Plus"), Id("c")>>),
           shape |-> Bin("Add", E(a, b), c)],
          [lex |-> R(<<Id("x"), OpenBracket, J(Id("a")), e1, Id("b"), CloseBracket>>),
           shape |-> [k |-> "Index", e |-> Ident("x"), args |-> <<E(a, b)>>]],
          [lex |-> R(<<Id("a"), e1, Id("b"), e2, Id("c")>>), shape |-> E(E(a, b), c)],
          [lex |-> R(<<Id("a"), Op("Plus"), Id("b"), e1, Id("c"), Op("Star"), Id("d")>>),
           shape |-> E(Bin("Add", a, b), Bin("Multiply", c, d))],
          [lex |-> R(<<Id("a"), W("Lt", "", 1), Id("b"), e1, Id("c")>>),
           shape |-> E(Bin("Lt", a, b), c)],
          [lex |-> R(<<Id("a"), Kw("and", 3), Id("b"), e1, Id("c")>>),
           shape |-> Bin("And", a, E(b, c))],
          [lex |-> R(<<W("Tilde", "", 1), J(Id("a")), e1, Id("b")>>),
           shape |-> E([k |-> "Unary", op |-> "BitInvert", e |-> a], b)] }

EqCases == UNION { EqTemplates(e1, e2) : e1 \in {EqLexeme, EqEqLexeme}, e2 \in {EqLexeme, EqEqLexeme} }

EqSources == { c.lex : c \in EqCases }

StmtSources ==
    AssignSources \cup InvokeSources \cup NoAssignSources \cup SemicolonSources \cup EqSources

InitStmt ==
    /\ source \in StmtSources
    /\ parser = Parser_new(source)
    /\ result = <<>>
    /\ pc = "ready"
    /\ NoBackEnd

\* what a call of parse_statement returned and left behind
Returned(r) ==
    [x |-> r.s, span |-> r.span, errors |-> Len(r.p.errors),
     current |-> r.p.current, next |-> r.p.reader.next]

\* the statement and the parser that parse_statement returned
StatementReturns(r) ==
    /\ result' = Append(result, Returned(r))
    /\ parser' = r.p

Statement ==
    /\ pc = "ready"
    /\ ~Kind(parser.current, "Eof")
    /\ StatementReturns(parse_statement(parser))
    /\ UNCHANGED <<source, pc>>
    /\ UNCHANGED <<heap, function, project>>

Finish ==
    /\ pc = "ready"
    /\ Kind(parser.current, "Eof")
    /\ pc' = "done"
    /\ UNCHANGED <<source, parser, result>>
    /\ UNCHANGED <<heap, function, project>>

NextStmt == Statement \/ Finish

SpecStmt == InitStmt /\ [][NextStmt]_vars

(***************************************************************************)
(* Reading results: the tree of a statement without its spans.             *)
(***************************************************************************)
RECURSIVE StmtShape(_)
StmtShape(n) ==
    LET Each(stmts) == [i \in 1..Len(stmts) |-> StmtShape(stmts[i].x)]
    IN  CASE n.k = "Assign" ->
                [k |-> "Assign", op |-> n.op, l |-> Shape(n.l.x), r |-> Shape(n.r.x)]
          [] n.k = "Invoke" -> [k |-> "Invoke", call |-> Shape(n.call)]
          [] n.k = "Error" -> [k |-> "Error", e |-> Shape(n.e)]
          [] n.k = "Declare" ->
                [k |-> "Declare", declare |-> n.declare,
                 idents |-> [i \in 1..Len(n.idents) |-> n.idents[i].sym]]
          [] n.k = "Block" -> [k |-> "Block", stmts |-> Each(n.stmts)]
          [] n.k = "If" ->
                [k |-> "If", cond |-> Shape(n.cond.x), then |-> StmtShape(n.then.x),
                 else |-> Each(n.else)]
          [] n.k \in {"While", "With"} ->
                [k |-> n.k, cond |-> Shape(n.cond.x), body |-> StmtShape(n.body.x)]
          [] n.k = "Repeat" ->
                [k |-> "Repeat", count |-> Shape(n.count.x), body |-> StmtShape(n.body.x)]
          [] n.k = "Do" ->
                [k |-> "Do", body |-> StmtShape(n.body.x), cond |-> Shape(n.cond.x)]
          [] n.k = "For" ->
                [k |-> "For", init |-> StmtShape(n.init.x), cond |-> Shape(n.cond.x),
                 next |-> StmtShape(n.next.x), body |-> StmtShape(n.body.x)]
          [] n.k = "Switch" -> [k |-> "Switch", e |-> Shape(n.e.x), body |-> Each(n.body)]
          [] n.k = "Return" -> [k |-> "Return", e |-> Shape(n.e.x)]
          [] n.k = "Case" ->
                [k |-> "Case", e |-> [i \in 1..Len(n.e) |-> Shape(n.e[i].x)]]
          [] OTHER -> n

AssignShape(op, l, r) == [k |-> "Assign", op |-> op, l |-> l, r |-> r]

\* the operator an assignment token stands for
AssignName(lexeme) ==
    CASE lexeme.t \in {"Eq", "ColonEq"} -> "None"
      [] lexeme.v = "Plus" -> "Add"
      [] lexeme.v = "Minus" -> "Subtract"
      [] lexeme.v = "Star" -> "Multiply"
      [] lexeme.v = "Slash" -> "Divide"
      [] lexeme.v = "Ampersand" -> "BitAnd"
      [] lexeme.v = "Pipe" -> "BitOr"
      [] lexeme.v = "Caret" -> "BitXor"

\* the tree of a left-hand term of Lvalues and of a right-hand side of Rvalues
LvalueShape(lexemes) ==
    CASE Len(lexemes) = 1 -> Ident("a")
      [] Len(lexemes) = 3 -> [k |-> "Field", e |-> Ident("a"), field |-> "f"]
      [] OTHER -> [k |-> "Index", e |-> Ident("a"), args |-> <<Real(Three)>>]

RvalueShape(lexemes) ==
    IF Len(lexemes) = 1 THEN Real(Three) ELSE Bin("Add", Ident("b"), Ident("c"))

CallShape == [k |-> "Call", f |-> Ident("f"), args |-> <<Real(Three)>>]

\* the parts of a source of AssignSources
AssignParts ==
    CHOOSE c \in [l : Lvalues, op : AssignLexemes, r : Rvalues] : c.l \o <<c.op>> \o c.r = source

\* C4: a statement that begins with no statement keyword is an assignment
\* or an invoke: after a leading call the statement is Invoke(call) and the
\* token after the call is not read, whatever it is; after any other term
\* one of = := += -= *= /= &= |= ^= gives Assign(op, lhs, rhs), op None for
\* = and := and the operator of the compound assignment otherwise; any other
\* token gives a diagnostic and Stmt::Error.
C4_AssignOrInvoke ==
    Len(result) >= 1 =>
        /\ source \in AssignSources =>
              /\ StmtShape(result[1].x) =
                    AssignShape(AssignName(AssignParts.op), LvalueShape(AssignParts.l),
                                RvalueShape(AssignParts.r))
              /\ result[1].errors = 0
              /\ Kind(result[1].current, "Eof")
        /\ source \in InvokeSources =>
              /\ StmtShape(result[1].x) = [k |-> "Invoke", call |-> CallShape]
              /\ result[1].errors = 0
              /\ IF Len(source) > 4 /\ source[5] # Semi
                 THEN result[1].next = 6 /\ result[1].current = Tok(source[5].t, source[5].v)
                 ELSE Kind(result[1].current, "Eof")
        /\ source \in NoAssignSources =>
              /\ result[1].x.k = "Error"
              /\ result[1].errors >= 1

\* `f(3) = 3` parsed: the statement is the Invoke and the `=` is still the
\* current token
C4_Witness ==
    /\ Len(result) = 1
    /\ source \in InvokeSources
    /\ result[1].x.k = "Invoke"
    /\ Kind(result[1].current, "Eq")

\* `a[3] ^= b + c` parsed as a compound assignment
C4_WitnessAssign ==
    /\ Len(result) = 1
    /\ source \in AssignSources
    /\ result[1].x.op = "BitXor"
    /\ result[1].x.l.x.k = "Index"

\* the case a source of SemicolonSources was written from
SemiCase == CHOOSE c \in SemicolonCases : CaseSource(c) = source

\* the statement of the case written with exactly one semicolon
OneSemicolon(c) == parse_statement(Parser_new(c.lex \o <<Semi>> \o c.follow))

FollowerShape(f) ==
    IF Len(f) = 1 THEN [k |-> "Jump", jump |-> "Exit"]
    ELSE AssignShape("None", Ident("c"), Real(Three))

\* what the claim says of the first statement of a case: its tree is the
\* one it has with one semicolon, nothing is reported, and exactly the
\* statement and its semicolons are read
SemicolonsAccepted(c) ==
    /\ StmtShape(result[1].x) = StmtShape(OneSemicolon(c).s)
    /\ result[1].errors = 0
    /\ IF c.follow = <<>>
       THEN Kind(result[1].current, "Eof")
       ELSE /\ result[1].current = Tok(c.follow[1].t, c.follow[1].v)
            /\ result[1].next = Len(c.lex) + c.k + 2
    /\ (pc = "done" /\ c.follow # <<>>) =>
          /\ Len(result) = 2
          /\ StmtShape(result[2].x) = FollowerShape(c.follow)
          /\ parser.errors = <<>>

\* the span of the statement ends with its last semicolon
SpanExtended(c) ==
    c.k >= 1 => result[1].span.high = LexemeSpan(Len(c.lex) + c.k).high

\* C5 as claimed: after a statement of every kind, the declaration
\* included, zero, one or several semicolons are read as part of the
\* statement, whose span is extended to the last one, and their number
\* changes neither the tree nor the diagnostics.
C5_AsClaimed ==
    (Len(result) >= 1 /\ source \in SemicolonSources) =>
        SemicolonsAccepted(SemiCase) /\ SpanExtended(SemiCase)

\* C5: after a statement of every kind other than a declaration zero, one
\* or several semicolons are read by the parse_statement call that ends
\* there and change neither the tree nor the diagnostics, and the span of
\* the statement ends with the last one, except that of a `for`, which ends
\* at its `)`; a declaration takes one or several semicolons in the same
\* way, and without one the parser reports a diagnostic.
C5_SemicolonsOptional ==
    (Len(result) >= 1 /\ source \in SemicolonSources) =>
        /\ (SemiCase.kind # "declare" \/ SemiCase.k >= 1) => SemicolonsAccepted(SemiCase)
        /\ SemiCase.kind # "for" => SpanExtended(SemiCase)
        /\ (SemiCase.kind = "declare" /\ SemiCase.k = 0) => result[1].errors >= 1

\* `do a = 3 until b;; c = 3` parsed to its end: two statements
C5_Witness ==
    /\ pc = "done"
    /\ source \in SemicolonSources
    /\ SemiCase.kind = "do" /\ SemiCase.k = 2 /\ Len(SemiCase.follow) = 3
    /\ Len(result) = 2
    /\ result[1].x.k = "Do"

\* C8: inside an expression = and == are the same operator: every
\* right-hand side written with either token where an equality stands, at
\* the top, under another operator, in parentheses, in call arguments and
\* in an index, parses without a diagnostic to the one tree with Binary Eq
\* nodes at comparison precedence; = is the assignment only right after the
\* left-hand term of the statement, so `a = b = c` is
\* Assign(None, a, Eq(b, c)), and == in that place is no assignment.
C8_EqInterchangeable ==
    Len(result) >= 1 =>
        /\ \A c \in EqCases :
              c.lex = source =>
                /\ StmtShape(result[1].x) = AssignShape("None", Ident("r"), c.shape)
                /\ result[1].errors = 0
                /\ Kind(result[1].current, "Eof")
        /\ source = <<Id("a"), EqLexeme, Id("b"), W("BinOp", "Plus", 1), Id("c")>> =>
              StmtShape(result[1].x) =
                 AssignShape("None", Ident("a"), Bin("Add", Ident("b"), Ident("c")))
        /\ source = <<Id("a"), EqEqLexeme, Num(<<"3">>)>> =>
              result[1].x.k = "Error" /\ result[1].errors >= 1

\* `r = a = b == c` parsed: both tokens gave an Eq node
C8_Witness ==
    /\ Len(result) = 1
    /\ source = <<Id("r"), EqLexeme, Id("a"), EqLexeme, Id("b"), EqEqLexeme, Id("c")>>
    /\ result[1].x.k = "Assign"
    /\ result[1].x.r.x.op = "Eq"
    /\ result[1].x.r.x.l.x.op = "Eq"

(***************************************************************************)
(* The specification of parse_program, as compile calls it: a parser is    *)
(* built over a source and the program is parsed.  The sources are all     *)
(* token streams of up to MaxTokens tokens over an alphabet, the source of *)
(* tests::program, and erroneous statements followed by a good one.        *)
(***************************************************************************)
ProgramAlphabet ==
    { Id("a"), EqLexeme, Semi, OpenBrace, CloseBrace, OpenParen, CloseParen, Comma,
      Kw("var", 3), Kw("if", 2), Op("Plus"), OpenBracket, Dot }

RECURSIVE Streams(_)
Streams(n) ==
    IF n = 0 THEN {<<>>}
    ELSE Streams(n - 1) \cup
         { Append(s, t) : s \in { x \in Streams(n - 1) : Len(x) = n - 1 }, t \in ProgramAlphabet }

\* the source of tests::program
ProgramTestSource ==
    << J(OpenBrace), Kw("var", 3), Id("x"), Semi, Id("x"), EqLexeme, Num(<<"3">>),
       W("Ident", "show_message", 12), J(OpenParen), J(Id("x")), Op("Star"), Id("y"),
       CloseParen, CloseBrace >>

\* an erroneous statement, then the well-formed statement b = 3; top is the
\* number of statements of the program when the parser resumes at b = 3
RecoveryCases ==
    { [lex |-> <<Id("a"), EqLexeme, Semi>> \o Assign3("b"), top |-> 2],
      [lex |-> <<Id("a"), Num(<<"3">>), Semi>> \o Assign3("b"), top |-> 2],
      [lex |-> <<Id("a"), EqLexeme, CloseParen>> \o Assign3("b"), top |-> 2],
      [lex |-> Assign3("d") \o <<OpenBrace, Id("a"), EqLexeme, Semi, CloseBrace>> \o Assign3("b"),
       top |-> 3],
      [lex |-> Assign3("d") \o <<OpenBrace, Id("a"), EqLexeme, CloseBrace>> \o Assign3("b"),
       top |-> 3],
      [lex |-> <<Id("a"), Op("Plus")>> \o Assign3("b"), top |-> 2],
      [lex |-> <<Kw("if", 2), OpenParen, J(Id("a")), Semi>> \o Assign3("b"), top |-> 2] }

RecoverySources == { c.lex : c \in RecoveryCases }

ProgramSources ==
    Streams(MaxTokens) \cup {ProgramTestSource} \cup RecoverySources \cup StmtSources

InitProgram ==
    /\ source \in ProgramSources
    /\ parser = Parser_new(source)
    /\ result = <<>>
    /\ pc = "ready"
    /\ NoBackEnd

\* the program and the parser that parse_program returned
ProgramReturns(r) ==
    /\ result' = <<Pair(r.s, r.span)>>
    /\ parser' = r.p

Program ==
    /\ pc = "ready"
    /\ ProgramReturns(parse_program(parser))
    /\ pc' = "done"
    /\ UNCHANGED source
    /\ UNCHANGED <<heap, function, project>>

NextProgram == Program

SpecProgram == InitProgram /\ [][NextProgram]_vars

\* the result of tests::program
ProgramExpected ==
    Pair([k |-> "Block", stmts |-> <<
            Pair([k |-> "Declare", declare |-> "Local",
                  idents |-> <<[sym |-> "x", span |-> Span(6, 7)]>>], Span(2, 8)),
            Pair([k |-> "Assign", op |-> "None", l |-> Pair(Ident("x"), Span(9, 10)),
                  r |-> Pair(Real(Three), Span(13, 14))], Span(9, 14)),
            Pair([k |-> "Invoke",
                  call |-> Call(Pair(Ident("show_message"), Span(15, 27)),
                                <<Pair(Binary("Multiply", Pair(Ident("x"), Span(28, 29)),
                                              Pair(Ident("y"), Span(32, 33))),
                                       Span(28, 33))>>)], Span(15, 34)) >>],
         Span(0, 36))

ProgramTest ==
    (pc = "done" /\ source = ProgramTestSource) => result[1] = ProgramExpected

\* the number of statements in a tree, the nested ones included
RECURSIVE CountStatements(_)
RECURSIVE CountAll(_)
CountAll(stmts) ==
    IF stmts = <<>> THEN 0 ELSE CountStatements(stmts[1].x) + CountAll(Tail(stmts))

CountStatements(n) ==
    1 + CASE n.k \in {"Block"} -> CountAll(n.stmts)
          [] n.k = "Switch" -> CountAll(n.body)
          [] n.k = "If" -> CountStatements(n.then.x) + CountAll(n.else)
          [] n.k \in {"While", "With", "Repeat", "Do"} -> CountStatements(n.body.x)
          [] n.k = "For" ->
                CountStatements(n.init.x) + CountStatements(n.next.x) + CountStatements(n.body.x)
          [] OTHER -> 0

RecoveryCase == CHOOSE c \in RecoveryCases : c.lex = source

\* C3 as claimed: on a syntax error the error handler is called, and the
\* parser resumes at the next statement boundary: the statement b = 3 that
\* follows the erroneous one is parsed as it is without the error, as the
\* last statement of the program, and an enclosing block is closed by its
\* brace, so that the program has the statements it is written with.
C3_ResumesAtBoundary ==
    (pc = "done" /\ source \in RecoverySources) =>
        /\ parser.errors # <<>>
        /\ Len(result[1].x.stmts) = RecoveryCase.top
        /\ StmtShape(result[1].x.stmts[RecoveryCase.top].x)
              = AssignShape("None", Ident("b"), Real(Three))

(***************************************************************************)
(* The specification of Real literals: the source is one Real token, read  *)
(* by parse_expression(0).  A hexadecimal text is `$`, a sign or none, a   *)
(* leading digit or none, up to MaxPad equal digits and a last character.  *)
(***************************************************************************)
Rep(c, k) == [i \in 1..k |-> c]

HexSigns == {<<>>, <<"+">>, <<"-">>}

HexLeads == {<<>>, <<"1">>, <<"2">>, <<"4">>, <<"8">>, <<"f">>}

HexPads == {"0", "f"}

HexTails == {<<>>, <<"1">>, <<"3">>, <<"8">>, <<"F">>, <<"g">>}

HexTexts ==
    { <<"$">> \o s \o l \o Rep(c, k) \o t :
        s \in HexSigns, l \in HexLeads, c \in HexPads, k \in 0..MaxPad, t \in HexTails }

\* decimal texts with what f64::from_str gives for them: the value
\* dig * 10^e10, or no value
DecimalCases ==
    { [text |-> <<"3">>, ok |-> TRUE, dig |-> <<3>>, e10 |-> 0],
      [text |-> <<"1", "2">>, ok |-> TRUE, dig |-> <<1, 2>>, e10 |-> 0],
      [text |-> <<"0", "0", "7">>, ok |-> TRUE, dig |-> <<7>>, e10 |-> 0],
      [text |-> <<"1", "0", "0">>, ok |-> TRUE, dig |-> <<1>>, e10 |-> 2],
      [text |-> <<"0">>, ok |-> TRUE, dig |-> <<>>, e10 |-> 0],
      [text |-> <<"1", ".", "5">>, ok |-> TRUE, dig |-> <<1, 5>>, e10 |-> -1],
      [text |-> <<"0", ".", "2", "5">>, ok |-> TRUE, dig |-> <<2, 5>>, e10 |-> -2],
      [text |-> <<".", "5">>, ok |-> TRUE, dig |-> <<5>>, e10 |-> -1],
      [text |-> <<"5", ".">>, ok |-> TRUE, dig |-> <<5>>, e10 |-> 0],
      [text |-> <<"1", "e", "3">>, ok |-> TRUE, dig |-> <<1>>, e10 |-> 3],
      [text |-> <<"2", "E", "-", "2">>, ok |-> TRUE, dig |-> <<2>>, e10 |-> -2],
      [text |-> <<"f", "f">>, ok |-> FALSE, dig |-> <<>>, e10 |-> 0],
      [text |-> <<".">>, ok |-> FALSE, dig |-> <<>>, e10 |-> 0],
      [text |-> <<"1", ".", "2", ".", "3">>, ok |-> FALSE, dig |-> <<>>, e10 |-> 0],
      [text |-> <<"1", "e">>, ok |-> FALSE, dig |-> <<>>, e10 |-> 0],
      [text |-> <<"e", "3">>, ok |-> FALSE, dig |-> <<>>, e10 |-> 0],
      [text |-> <<"0", "x", "1", "0">>, ok |-> FALSE, dig |-> <<>>, e10 |-> 0],
      [text |-> <<"1", "$">>, ok |-> FALSE, dig |-> <<>>, e10 |-> 0] }

RealTexts == HexTexts \cup { c.text : c \in DecimalCases }

RealSources == { <<Num(text)>> : text \in RealTexts }

InitReal ==
    /\ source \in RealSources
    /\ parser = Parser_new(source)
    /\ result = <<>>
    /\ pc = "ready"
    /\ NoBackEnd

NextReal == Expression

SpecReal == InitReal /\ [][NextReal]_vars

(***************************************************************************)
(* Reading results: integers as sequences of decimal digits, the most      *)
(* significant first and without leading zeros.                            *)
(***************************************************************************)
\* the text of the Real token of the source, and what follows its `$`
LiteralText == source[1].v

HexBody == Tail(LiteralText)

IsHexLiteral == LiteralText # <<>> /\ Head(LiteralText) = "$"

HexValueOf(c) ==
    CASE c = "0" -> 0 [] c = "1" -> 1 [] c = "2" -> 2 [] c = "3" -> 3 [] c = "4" -> 4
      [] c = "8" -> 8 [] c = "f" -> 15 [] c = "F" -> 15

IsHexChar(c) == c \in {"0", "1", "2", "3", "4", "8", "f", "F"}

AllHex(text) == text # <<>> /\ \A i \in 1..Len(text) : IsHexChar(text[i])

SkipZeros(text) ==
    IF \A i \in 1..Len(text) : text[i] = "0" THEN <<>>
    ELSE SubSeq(text, CHOOSE i \in 1..Len(text) :
                          text[i] # "0" /\ \A j \in 1..(i - 1) : text[j] = "0", Len(text))

\* the number of bits of the integer written by hexadecimal digits
BitLength(text) ==
    LET sig == SkipZeros(text)
    IN  IF sig = <<>> THEN 0
        ELSE 4 * Len(sig) - (CASE HexValueOf(Head(sig)) >= 8 -> 0
                               [] HexValueOf(Head(sig)) >= 4 -> 1
                               [] HexValueOf(Head(sig)) >= 2 -> 2
                               [] OTHER -> 3)

RECURSIVE NatDigits(_)
NatDigits(n) == IF n = 0 THEN <<>> ELSE NatDigits(n \div 10) \o <<n % 10>>

\* the integer written by hexadecimal digits, two digits at a time
RECURSIVE HexPairs(_)
HexPairs(s) ==
    IF s.i > Len(s.text) THEN s.acc
    ELSE HexPairs([text |-> s.text, i |-> s.i + 2,
                   acc |-> MulAdd(s.acc, 256, 16 * HexValueOf(s.text[s.i])
                                               + HexValueOf(s.text[s.i + 1]))])

HexExact(text) ==
    HexPairs([text |-> (IF Len(text) % 2 = 1 THEN <<"0">> ELSE <<>>) \o text,
              i |-> 1, acc |-> <<>>])

Pow2(k) == NatDigits(2 ^ k)

Pad(digits, n) == Zeros(n - Len(digits)) \o digits

Longer(a, b) == IF Len(a) > Len(b) THEN Len(a) ELSE Len(b)

\* a + b
Plus(a, b) ==
    StripLeading(AddDigits(Pad(a, Longer(a, b) + 1), Pad(b, Longer(a, b) + 1)))

\* a <= b
Leq(a, b) ==
    \/ Len(a) < Len(b)
    \/ Len(a) = Len(b) /\ \/ a = b
                          \/ \E i \in 1..Len(a) :
                                a[i] < b[i] /\ \A j \in 1..(i - 1) : a[j] = b[j]

\* a divided by two, rounded down
Halve(a) ==
    StripLeading([i \in 1..Len(a) |->
                     (10 * (IF i = 1 THEN 0 ELSE a[i - 1] % 2) + a[i]) \div 2])

IsEven(a) == a = <<>> \/ a[Len(a)] % 2 = 0

\* a divided by 2^k: [ok, q], ok when nothing remains
RECURSIVE DivPow2(_, _)
DivPow2(a, k) ==
    IF k = 0 THEN [ok |-> TRUE, q |-> a]
    ELSE IF ~IsEven(a) THEN [ok |-> FALSE, q |-> <<>>]
    ELSE DivPow2(Halve(a), k - 1)

\* the integer digits of a finite f64 that is a natural number
IntegerOf(f) == f.dig \o Zeros(f.e10)

\* f is the integer v itself
IsExactly(f, v) == f.cls = "fin" /\ ~f.neg /\ f.e10 >= 0 /\ IntegerOf(f) = v

\* f is the f64 nearest to the integer v of n bits, the even one of two
\* that are as near: a multiple of the unit 2^(n - F64Mantissa) at most
\* half a unit away from v
IsNearest(f, v, n) ==
    IF n <= F64Mantissa THEN IsExactly(f, v)
    ELSE LET unit == n - F64Mantissa
             half == Pow2(unit - 1)
             r == IntegerOf(f)
             m == DivPow2(r, unit)
         IN  /\ f.cls = "fin" /\ ~f.neg /\ f.e10 >= 0
             /\ m.ok
             /\ Leq(r, Plus(v, half))
             /\ Leq(v, Plus(r, half))
             /\ (r = Plus(v, half) \/ v = Plus(r, half)) => IsEven(m.q)

\* the one diagnostic of a literal that was not converted
LiteralError(msg) == <<[span |-> Span(1, 1 + Len(LiteralText)), msg |-> msg]>>

\* the parse ended with the Real value f as the expression of the token
Gives(f) ==
    /\ result[1] = Pair(Real(f), Span(1, 1 + Len(LiteralText)))
    /\ Kind(parser.current, "Eof")

DecimalCase == CHOOSE c \in DecimalCases : c.text = LiteralText

\* every other Real token: the decimal value and no diagnostic, or the
\* diagnostic and 0.0
DecimalRead ==
    IF DecimalCase.ok
    THEN Gives(F64("fin", FALSE, DecimalCase.dig, DecimalCase.e10)) /\ parser.errors = <<>>
    ELSE Gives(F64Zero) /\ parser.errors = LiteralError("invalid floating point literal")

\* C9 as claimed: the digits after `$` are read as an unsigned hexadecimal
\* integer and the value is that integer; digits that are empty, not
\* hexadecimal or beyond 64 bits give "invalid integer literal" and 0;
\* every other text is read as a decimal float, with "invalid floating
\* point literal" and 0.0 on failure.
C9_AsClaimed ==
    pc = "done" =>
        IF ~IsHexLiteral THEN DecimalRead
        ELSE IF AllHex(HexBody) /\ BitLength(HexBody) <= U64Bits
        THEN parser.errors = <<>> /\ \E f \in {result[1].x.val} :
                 Gives(f) /\ IsExactly(f, HexExact(HexBody))
        ELSE Gives(F64Zero) /\ parser.errors = LiteralError("invalid integer literal")

\* the hexadecimal digits that u64::from_str_radix reads: a `+` before
\* them is accepted
HexDigitsRead == IF HexBody # <<>> /\ Head(HexBody) = "+" THEN Tail(HexBody) ELSE HexBody

\* C9, corrected: the digits after `$`, and after a `+` that may precede
\* them, are read as an unsigned hexadecimal integer, and the value is the
\* f64 nearest to that integer, ties to even: the integer itself when it
\* has at most 53 bits; digits that are empty, not hexadecimal or beyond
\* 64 bits give "invalid integer literal" and 0; every other text is read
\* as a decimal float, with "invalid floating point literal" and 0.0 on
\* failure.  The parse never fails.
C9_RealLiterals ==
    pc = "done" =>
        IF ~IsHexLiteral THEN DecimalRead
        ELSE IF AllHex(HexDigitsRead) /\ BitLength(HexDigitsRead) <= U64Bits
        THEN parser.errors = <<>> /\ \E f \in {result[1].x.val} :
                 Gives(f) /\ IsNearest(f, HexExact(HexDigitsRead), BitLength(HexDigitsRead))
        ELSE Gives(F64Zero) /\ parser.errors = LiteralError("invalid integer literal")

\* $20000000000003 is 2^53 + 3, halfway between two f64: the value is
\* 2^53 + 4 = 9007199254740996
C9_Witness ==
    /\ pc = "done"
    /\ LiteralText = <<"$", "2">> \o Rep("0", 12) \o <<"3">>
    /\ parser.errors = <<>>
    /\ Gives(F64("fin", FALSE, <<9, 0, 0, 7, 1, 9, 9, 2, 5, 4, 7, 4, 0, 9, 9, 6>>, 0))

(***************************************************************************)
(* vm::Value (gml/src/vm/value.rs): a NaN-boxed 64-bit word.  The word is  *)
(* written as its four 16-bit limbs, the most significant first, so that   *)
(* `value >> 48` is the first limb and `value & ((1 << 48) - 1)` the other *)
(* three.  An f64 is its bit pattern: mem::transmute changes no bit.       *)
(***************************************************************************)
\* most Values held at a time, and most arrays allocated in a run
MaxValues == 2

MaxArrays == 1

\* 0xfff0, the tag of a boxed value without its low four bits
TagBase == 65520

Word(tag, payload) == <<tag>> \o payload

\* value >> 48
tag_of(value) == value[1]

\* value & ((1 << 48) - 1)
payload_of(value) == SubSeq(value, 2, 4)

\* tag & !0x1f != 0xffe0
is_real_tag_wide(tag) == (tag \div 32) * 32 # TagBase - 16

\* tag & !0xf != 0xfff0
is_real_tag(tag) == (tag \div 16) * 16 # TagBase

\* Value::data without its effect on the array: the variant and what it
\* holds, or the failure of unreachable!
data(value) ==
    IF is_real_tag(tag_of(value)) THEN [ty |-> "Real", x |-> value]
    ELSE CASE tag_of(value) % 16 = 0 -> [ty |-> "String", x |-> payload_of(value)]
           [] tag_of(value) % 16 = 1 -> [ty |-> "Array", x |-> payload_of(value)]
           [] OTHER -> [ty |-> "corrupt value", x |-> <<>>]

\* Value::release with every tag but 0x0 taken for an array
release_any_tag(value) ==
    IF is_real_tag(tag_of(value)) \/ tag_of(value) % 16 = 0 THEN [ty |-> "return", x |-> <<>>]
    ELSE [ty |-> "drop", x |-> payload_of(value)]

\* what Value::release does: nothing, the drop of the array handle made
\* by vm::Array::from_raw, or the failure of unreachable!
release(value) ==
    IF is_real_tag(tag_of(value)) THEN [ty |-> "return", x |-> <<>>]
    ELSE CASE tag_of(value) % 16 = 0 -> [ty |-> "return", x |-> <<>>]
           [] tag_of(value) % 16 = 1 -> [ty |-> "drop", x |-> payload_of(value)]
           [] OTHER -> [ty |-> "corrupt value", x |-> <<>>]

\* From<f64> for Value
from_f64(bits) == bits

\* From<Symbol> for Value and From<vm::Array> for Value
from_symbol(raw) == Word(TagBase + 0, raw)

from_array(raw) == Word(TagBase + 1, raw)

\* TryFrom<Value> for f64 and for Symbol, on what Value::data gave
try_from_f64(d) ==
    CASE d.ty = "Real" -> [ty |-> "Ok", x |-> d.x]
      [] d.ty = "corrupt value" -> d
      [] OTHER -> [ty |-> "Err", x |-> <<>>]

try_from_symbol(d) ==
    CASE d.ty = "String" -> [ty |-> "Ok", x |-> d.x]
      [] d.ty = "corrupt value" -> d
      [] OTHER -> [ty |-> "Err", x |-> <<>>]

(***************************************************************************)
(* vm::Array, a reference-counted handle to an array block, and the heap   *)
(* of a run: `counts` holds the count of every block allocated so far (0   *)
(* once it is freed), `values` the Values the program holds, each with the *)
(* type it was built from, `handles` the vm::Array handles it holds, and   *)
(* `last` the last call and what it gave.  `ub` is raised when a call      *)
(* reads a pointer that names no live block.                               *)
(***************************************************************************)
\* the address of the k-th block, and the block at an address (0 if none)
AddressOf(k) == <<0, 0, 16 * k>>

ArrayAt(raw) ==
    IF \E k \in 1..(MaxArrays + 1) : AddressOf(k) = raw
    THEN CHOOSE k \in 1..(MaxArrays + 1) : AddressOf(k) = raw
    ELSE 0

IsLive(h, raw) == ArrayAt(raw) \in 1..Len(h.counts) /\ h.counts[ArrayAt(raw)] > 0

\* a Value held, the type it was built from and what it was built from
Held(value, of, x) == [v |-> value, of |-> of, x |-> x]

\* a call of a constructor with its argument, and a call on a Value held
Called(op, x, out) == [op |-> op, v |-> x, of |-> "", out |-> out]

CalledOn(op, held, out) == [op |-> op, v |-> held.v, of |-> held.of, out |-> out]

Without(seq, i) == SubSeq(seq, 1, i - 1) \o SubSeq(seq, i + 1, Len(seq))

\* Clone for vm::Array: one more reference
retain(counts, k) == [counts EXCEPT ![k] = @ + 1]

\* Drop for vm::Array: one reference less, and the block is freed at 0
drop(counts, k) == [counts EXCEPT ![k] = @ - 1]

\* the counts after a read of a pointer that names no live block: any
Garbled(counts) ==
    {counts} \cup { [counts EXCEPT ![k] = n] : k \in 1..Len(counts), n \in {0, 1} }

Undefined(h, call) ==
    { [h EXCEPT !.ub = TRUE, !.counts = c, !.last = call] : c \in Garbled(h.counts) }

\* f64 bit patterns: tags at the edges of the classes of f64 (zero, 1.0,
\* the largest finite, infinity, the quiet NaN, and their negatives) and
\* every tag of 0xfff0..=0xffff, with payloads that are zero, small, all
\* ones, and the address of the first array block
F64Tags ==
    {0, 16368, 32751, 32752, 32760, 32768, 49136, 65519} \cup (TagBase..(TagBase + 15))

F64Payloads == { <<0, 0, 0>>, <<0, 0, 1>>, <<65535, 65535, 65535>>, AddressOf(1) }

F64Bits == { Word(t, p) : t \in F64Tags, p \in F64Payloads }

\* Symbol::into_raw of the symbols of a run
SymbolRaws == { <<0, 0, 1>>, <<0, 0, 2>> }

\* a run holds one Value that is no array at a time
Scalars(h) == { i \in 1..Len(h.values) : h.values[i].of # "array" }

InitValue ==
    /\ heap = [counts |-> <<>>, values |-> <<>>, handles |-> <<>>,
               last |-> Called("none", <<>>, <<>>), ub |-> FALSE]
    /\ function = Unused /\ project = Unused
    /\ NoFrontEnd

\* Value::from(x) for an f64 x
NewReal ==
    /\ ~heap.ub /\ Len(heap.values) < MaxValues /\ Scalars(heap) = {}
    /\ \E bits \in F64Bits :
          heap' = [heap EXCEPT !.values = Append(@, Held(from_f64(bits), "f64", bits)),
                               !.last = Called("from_f64", bits, from_f64(bits))]
    /\ UNCHANGED <<front, function, project>>

\* Value::from(s) for a Symbol s
NewString ==
    /\ ~heap.ub /\ Len(heap.values) < MaxValues /\ Scalars(heap) = {}
    /\ \E raw \in SymbolRaws :
          heap' = [heap EXCEPT !.values = Append(@, Held(from_symbol(raw), "symbol", raw)),
                               !.last = Called("from_symbol", raw, from_symbol(raw))]
    /\ UNCHANGED <<front, function, project>>

\* Value::from(a) for a new vm::Array a: into_raw keeps its one reference
NewArray ==
    /\ ~heap.ub /\ Len(heap.values) < MaxValues /\ Len(heap.counts) < MaxArrays
    /\ heap' = [heap EXCEPT !.counts = Append(@, 1),
                            !.values = Append(@, Held(from_array(AddressOf(Len(heap.counts) + 1)),
                                                      "array", AddressOf(Len(heap.counts) + 1))),
                            !.last = Called("from_array", AddressOf(Len(heap.counts) + 1),
                                            from_array(AddressOf(Len(heap.counts) + 1)))]
    /\ UNCHANGED <<front, function, project>>

\* a copy of a Value: derive(Copy, Clone) copies the word
CopyValue ==
    /\ ~heap.ub /\ Len(heap.values) < MaxValues
    /\ \E i \in 1..Len(heap.values) :
          /\ heap.values[i].of = "array" \/ Scalars(heap) = {}
          /\ heap' = [heap EXCEPT !.values = Append(@, heap.values[i]),
                                  !.last = CalledOn("copy", heap.values[i], heap.values[i].v)]
    /\ UNCHANGED <<front, function, project>>

\* value.data(), the Data kept: vm::Array::clone_from_raw makes a handle;
\* a run holds one handle at a time
DataOf(h, held, d) ==
    IF d.ty # "Array" THEN {[h EXCEPT !.last = CalledOn("data", held, d)]}
    ELSE IF ~IsLive(h, d.x) THEN Undefined(h, CalledOn("data", held, d))
    ELSE {[h EXCEPT !.counts = retain(@, ArrayAt(d.x)),
                    !.handles = Append(@, ArrayAt(d.x)),
                    !.last = CalledOn("data", held, d)]}

Data ==
    /\ ~heap.ub /\ heap.handles = <<>>
    /\ \E i \in 1..Len(heap.values) : heap' \in DataOf(heap, heap.values[i], data(heap.values[i].v))
    /\ UNCHANGED <<front, function, project>>

\* f64::try_from(value) and Symbol::try_from(value): the Data is matched
\* and dropped, and with it the handle of an array
TryFromOf(h, op, held, d, out) ==
    IF d.ty = "Array" /\ ~IsLive(h, d.x) THEN Undefined(h, CalledOn(op, held, out))
    ELSE {[h EXCEPT !.last = CalledOn(op, held, out)]}

TryFromF64 ==
    /\ ~heap.ub
    /\ \E i \in 1..Len(heap.values) :
          heap' \in TryFromOf(heap, "f64::try_from", heap.values[i], data(heap.values[i].v),
                              try_from_f64(data(heap.values[i].v)))
    /\ UNCHANGED <<front, function, project>>

TryFromSymbol ==
    /\ ~heap.ub
    /\ \E i \in 1..Len(heap.values) :
          heap' \in TryFromOf(heap, "Symbol::try_from", heap.values[i], data(heap.values[i].v),
                              try_from_symbol(data(heap.values[i].v)))
    /\ UNCHANGED <<front, function, project>>

\* value.release() of a Value the program gives up
ReleaseOf(h, i, r) ==
    IF r.ty = "corrupt value" THEN {[h EXCEPT !.last = CalledOn("release", h.values[i], r)]}
    ELSE IF r.ty = "return"
    THEN {[h EXCEPT !.values = Without(@, i), !.last = CalledOn("release", h.values[i], r)]}
    ELSE IF ~IsLive(h, r.x)
    THEN Undefined([h EXCEPT !.values = Without(@, i)], CalledOn("release", h.values[i], r))
    ELSE {[h EXCEPT !.counts = drop(@, ArrayAt(r.x)), !.values = Without(@, i),
                    !.last = CalledOn("release", h.values[i], r)]}

Release ==
    /\ ~heap.ub
    /\ \E i \in 1..Len(heap.values) : heap' \in ReleaseOf(heap, i, release(heap.values[i].v))
    /\ UNCHANGED <<front, function, project>>

\* the drop of a vm::Array handle
DropHandle ==
    /\ ~heap.ub
    /\ \E j \in 1..Len(heap.handles) :
          heap' = [heap EXCEPT !.counts = drop(@, heap.handles[j]),
                               !.handles = Without(@, j),
                               !.last = Called("drop", AddressOf(heap.handles[j]), <<>>)]
    /\ UNCHANGED <<front, function, project>>

NextValue ==
    \/ NewReal \/ NewString \/ NewArray \/ CopyValue \/ Data
    \/ TryFromF64 \/ TryFromSymbol \/ Release \/ DropHandle

SpecValue == InitValue /\ [][NextValue]_vars

(***************************************************************************)
(* Reading Values: the classes of f64 from its bits, and the calls of a    *)
(* run.                                                                    *)
(***************************************************************************)
\* the tags 0xfff0..=0xffff
BoxedTags == TagBase..(TagBase + 15)

\* the exponent field of an f64, and whether its fraction is zero
ExponentOf(bits) == (bits[1] \div 16) % 2048

ZeroFraction(bits) == bits[1] % 16 = 0 /\ SubSeq(bits, 2, 4) = <<0, 0, 0>>

IsFiniteF64(bits) == ExponentOf(bits) # 2047

IsNaN(bits) == ExponentOf(bits) = 2047 /\ ~ZeroFraction(bits)

\* the last call was value.data()
DataCalled == heap.last.op = "data"

\* what the top 16 bits make of a word, as C11 has it
Discriminated(value) ==
    CASE value[1] = TagBase -> [ty |-> "String", x |-> SubSeq(value, 2, 4)]
      [] value[1] = TagBase + 1 -> [ty |-> "Array", x |-> SubSeq(value, 2, 4)]
      [] value[1] \notin BoxedTags -> [ty |-> "Real", x |-> value]
      [] OTHER -> [ty |-> "none", x |-> <<>>]

\* C11: for every Value exactly one of the real / string / array
\* discriminations succeeds, decided by the top 16 bits alone: Real with
\* the whole word outside 0xfff0..=0xffff, String for 0xfff0 and Array for
\* 0xfff1 with the low 48 bits as payload; and of f64::try_from and
\* Symbol::try_from at most one returns Ok.
C11_OneDiscrimination ==
    /\ DataCalled =>
          /\ heap.last.out.ty \in {"Real", "String", "Array"}
          /\ heap.last.out = Discriminated(heap.last.v)
    /\ \A i \in 1..Len(heap.values) :
          ~(/\ try_from_f64(data(heap.values[i].v)).ty = "Ok"
            /\ try_from_symbol(data(heap.values[i].v)).ty = "Ok")

\* the last call was f64::try_from(value)
TryFromF64Called == heap.last.op = "f64::try_from"

\* the Values held that were built from a finite f64 and are the argument
\* of the last call
FiniteRealsCalled ==
    { i \in 1..Len(heap.values) :
        /\ heap.values[i].of = "f64" /\ IsFiniteF64(heap.values[i].x)
        /\ heap.values[i].v = heap.last.v }

\* C12: for every finite f64 x, zeros and subnormals of both signs
\* included, f64::try_from(Value::from(x)) is Ok(x), bit for bit.
C12_RealRoundTrip ==
    TryFromF64Called =>
        \A i \in FiniteRealsCalled :
            ~heap.ub /\ heap.last.out = [ty |-> "Ok", x |-> heap.values[i].x]

\* the round trip of the most negative finite tag, 0xffef with all ones
C12_Witness ==
    /\ TryFromF64Called
    /\ \E i \in FiniteRealsCalled : heap.values[i].x = <<65519, 65535, 65535, 65535>>
    /\ heap.last.out = [ty |-> "Ok", x |-> <<65519, 65535, 65535, 65535>>]

\* the Values held that were built from an f64
RealsHeld == { i \in 1..Len(heap.values) : heap.values[i].of = "f64" }

\* the last call was data or release of a Value built from an f64
RealDecoded == heap.last.op \in {"data", "release"} /\ heap.last.of = "f64"

\* C13: the real encoder never collides with a tag: Value::from(x) of any
\* f64 x, infinities and NaNs included, has its top 16 bits outside
\* 0xfff0..=0xffff, so that Value::data and Value::release never decode it
\* as a string or an array.
C13_NoTagCollision ==
    /\ \A i \in RealsHeld : heap.values[i].v[1] \notin BoxedTags
    /\ heap.last.op = "from_f64" => heap.last.out[1] \notin BoxedTags
    /\ RealDecoded =>
          /\ ~heap.ub
          /\ heap.last.out \in {[ty |-> "Real", x |-> heap.last.v], [ty |-> "return", x |-> <<>>]}

\* the tags 0xfff2..=0xffff: the top 12 bits are 0xfff and the 4-bit tag
\* is neither 0x0 nor 0x1
ReservedTags == (TagBase + 2)..(TagBase + 15)

\* the step is a call of data or of release on a word of a reserved tag
ReservedCalled(h) == h.last.op \in {"data", "release"} /\ h.last.v[1] \in ReservedTags

\* C14: for every word whose top 12 bits are 0xfff and whose 4-bit tag is
\* in 0x2..=0xf, Value::data and Value::release stop with the "corrupt
\* value" failure: they return no Real, String or Array and change no
\* reference count.
C14_ReservedTagsRejected ==
    [][ReservedCalled(heap') =>
          /\ heap'.last.out = [ty |-> "corrupt value", x |-> <<>>]
          /\ heap'.counts = heap.counts
          /\ heap'.handles = heap.handles
          /\ ~heap'.ub]_vars

\* release of 0xffff_0000_0000_0010, whose payload is the address of a
\* live array, has failed and the array still has its one reference
C14_Witness ==
    /\ heap.last.op = "release"
    /\ heap.last.v = <<65535, 0, 0, 16>>
    /\ heap.last.out.ty = "corrupt value"
    /\ heap.counts = <<1>>

\* the Values held that were built from block k, and the handles of block k
CopiesOf(h, k) == { i \in 1..Len(h.values) : h.values[i].of = "array" /\ h.values[i].x = AddressOf(k) }

HandlesOf(h, k) == { j \in 1..Len(h.handles) : h.handles[j] = k }

\* the count of every array is the number of live copies of its Value and
\* of live handles to it, and no call has read a freed block
Balanced(h) ==
    /\ \A k \in 1..Len(h.counts) :
          h.counts[k] = Cardinality(CopiesOf(h, k)) + Cardinality(HandlesOf(h, k))
    /\ ~h.ub

\* the step is a call on an array Value or the drop of a handle
OnArray(h) == h.last.of = "array" \/ h.last.op \in {"from_array", "drop"}

\* C15: reference counts balance for array-typed Values: every copy of an
\* array Value and every handle from Value::data increments the count,
\* every release and handle drop decrements it by one, so that the count
\* stays the number of live copies and handles and the block is freed
\* exactly when the last of them goes.
C15_CountsBalance ==
    [][(Balanced(heap) /\ OnArray(heap')) => Balanced(heap')]_vars

(***************************************************************************)
(* back::ssa::Function.  An EntityMap is a vector indexed by the entity:   *)
(* push appends and gives the entity of the old length, so that entity n   *)
(* is element n + 1 of the sequence.  Block and Value are u32 indices.     *)
(***************************************************************************)
MaxBlocks == 3
MaxInsts == 2

ENTRY == 0
EXIT == 1

\* EntityMap::push: the map after the push, and the entity it gives
push(map, x) == Append(map, x)

pushed(map) == Len(map)

\* EntityMap indexing
at(map, entity) == map[entity + 1]

\* BlockBody of make_block
BlockBody == [arguments |-> <<>>, instructions |-> <<>>]

\* what a call on a Function gave: Values, Blocks, or the message of a
\* failure
Gave(ty, x) == [ty |-> ty, x |-> x]

\* a call on a Function and what it gave
SsaCalled(op, block, out) == [op |-> op, block |-> block, out |-> out]

\* Function::make_block with the new block put first
make_block_first(f) ==
    [f EXCEPT !.blocks = <<BlockBody>> \o @, !.last = SsaCalled("make_block", 0, Gave("Block", <<0>>))]

\* Function::make_block
make_block(f) ==
    [f EXCEPT !.blocks = push(@, BlockBody),
              !.last = SsaCalled("make_block", pushed(f.blocks), Gave("Block", <<pushed(f.blocks)>>))]

\* Function::new
new ==
    make_block(make_block([blocks |-> <<>>,
                           values |-> push(<<>>, [op |-> "Undef"]),
                           return_def |-> pushed(<<>>),
                           last |-> SsaCalled("new", 0, Gave("Block", <<>>))]))

\* Function::emit_instruction
emit_instruction(f, block, inst) ==
    [f EXCEPT !.values = push(@, inst),
              !.blocks[block + 1].instructions = Append(@, pushed(f.values)),
              !.last = SsaCalled("emit_instruction", block, Gave("Value", <<pushed(f.values)>>))]

\* Function::emit_argument with the value put in the instruction list too
emit_argument_listed(f, block) ==
    [f EXCEPT !.values = push(@, [op |-> "Argument"]),
              !.blocks[block + 1].arguments = Append(@, pushed(f.values)),
              !.blocks[block + 1].instructions = Append(@, pushed(f.values)),
              !.last = SsaCalled("emit_argument", block, Gave("Value", <<pushed(f.values)>>))]

\* Function::emit_argument
emit_argument(f, block) ==
    [f EXCEPT !.values = push(@, [op |-> "Argument"]),
              !.blocks[block + 1].arguments = Append(@, pushed(f.values)),
              !.last = SsaCalled("emit_argument", block, Gave("Value", <<pushed(f.values)>>))]

\* Function::terminator with the first instruction for the last
terminator_first(f, block) ==
    IF at(f.blocks, block).instructions = <<>> THEN Gave("empty block", <<>>)
    ELSE Gave("Value", <<Head(at(f.blocks, block).instructions)>>)

\* Function::terminator: the last instruction of the block
terminator(f, block) ==
    IF at(f.blocks, block).instructions = <<>> THEN Gave("empty block", <<>>)
    ELSE Gave("Value", <<at(f.blocks, block).instructions[Len(at(f.blocks, block).instructions)]>>)

\* the match of Function::successors on the terminator
successors_of(inst) ==
    CASE inst.op = "Jump" -> Gave("Blocks", <<inst.target>>)
      [] inst.op = "Branch" -> Gave("Blocks", inst.targets)
      [] inst.op = "Return" -> Gave("Blocks", <<>>)
      [] OTHER -> Gave("corrupt block", <<>>)

\* Function::successors
successors(f, block) ==
    IF terminator(f, block).ty = "empty block" THEN terminator(f, block)
    ELSE successors_of(at(f.values, terminator(f, block).x[1]))

\* the blocks of a function, and the instructions a run emits: one that
\* is no terminator and the three that are
Blocks(f) == 0..(Len(f.blocks) - 1)

\* the targets of the jumps of a run: EXIT and the newest block
Targets(f) == {EXIT, Len(f.blocks) - 1}

Insts(f) ==
    {[op |-> "Immediate"], [op |-> "Return"]}
        \cup { [op |-> "Jump", target |-> t] : t \in Targets(f) }
        \cup { [op |-> "Branch", targets |-> <<t, EXIT>>] : t \in Targets(f) }

InitSsa ==
    /\ function = new
    /\ heap = Unused /\ project = Unused
    /\ NoFrontEnd

MakeBlock ==
    /\ Len(function.blocks) < MaxBlocks
    /\ function' = make_block(function)
    /\ UNCHANGED <<front, heap, project>>

EmitInstruction ==
    /\ Len(function.values) < MaxInsts + 1
    /\ \E block \in Blocks(function), inst \in Insts(function) :
          function' = emit_instruction(function, block, inst)
    /\ UNCHANGED <<front, heap, project>>

EmitArgument ==
    /\ Len(function.values) < MaxInsts + 1
    /\ \E block \in Blocks(function) : function' = emit_argument(function, block)
    /\ UNCHANGED <<front, heap, project>>

Terminator ==
    /\ \E block \in Blocks(function) :
          function' = [function EXCEPT !.last = SsaCalled("terminator", block, terminator(function, block))]
    /\ UNCHANGED <<front, heap, project>>

Successors ==
    /\ \E block \in Blocks(function) :
          function' = [function EXCEPT !.last = SsaCalled("successors", block, successors(function, block))]
    /\ UNCHANGED <<front, heap, project>>

NextSsa == MakeBlock \/ EmitInstruction \/ EmitArgument \/ Terminator \/ Successors

SpecSsa == InitSsa /\ [][NextSsa]_vars

\* the Values in the lists of a block
Listed(body) ==
    { body.instructions[i] : i \in 1..Len(body.instructions) }
        \cup { body.arguments[i] : i \in 1..Len(body.arguments) }

\* seq is the start of longer
StartOf(seq, longer) == Len(seq) <= Len(longer) /\ SubSeq(longer, 1, Len(seq)) = seq

\* every block of f is in g at its index with all it listed
BlocksKept(f, g) ==
    /\ Len(f.blocks) <= Len(g.blocks)
    /\ \A b \in 1..Len(f.blocks) :
          /\ StartOf(f.blocks[b].instructions, g.blocks[b].instructions)
          /\ StartOf(f.blocks[b].arguments, g.blocks[b].arguments)

\* C16: Function::new gives the two empty blocks ENTRY = 0 and EXIT = 1
\* and return_def = value 0, an Undef; after any make_block,
\* emit_instruction and emit_argument the two blocks are there, no block
\* is removed or renumbered, and return_def is in no list of any block.
C16_EntryExitReturnDef ==
    /\ function.blocks = <<BlockBody, BlockBody>>
    /\ function.values = <<[op |-> "Undef"]>>
    /\ [](/\ {ENTRY, EXIT} \subseteq Blocks(function)
          /\ function.return_def = 0
          /\ at(function.values, function.return_def) = [op |-> "Undef"]
          /\ \A b \in Blocks(function) : function.return_def \notin Listed(at(function.blocks, b)))
    /\ [][BlocksKept(function, function')]_vars

\* a third block was made after ENTRY and EXIT were given an instruction
\* and an argument
C16_Witness ==
    /\ Len(function.blocks) = 3
    /\ function.last.op = "make_block"
    /\ at(function.blocks, ENTRY).instructions # <<>>
    /\ at(function.blocks, EXIT).arguments # <<>>

\* the instructions of the block of the last call, and the last of them
CalledBody == at(function.blocks, function.last.block).instructions

CalledLast == at(function.values, CalledBody[Len(CalledBody)])

Terminators == {"Jump", "Branch", "Return"}

\* the block ends in exactly one terminator
Sealed(f, block) ==
    /\ at(f.blocks, block).instructions # <<>>
    /\ \A i \in 1..Len(at(f.blocks, block).instructions) :
          at(f.values, at(f.blocks, block).instructions[i]).op \in Terminators
              <=> i = Len(at(f.blocks, block).instructions)

Failures == {"empty block", "corrupt block"}

MaxItems == 3

\* the Symbols that name items
Names == 1..MaxItems

\* Item::Script(source), Item::Native(function, arity, variadic) and
\* Item::Member(get, set), get and set being Some (TRUE) or None
Script(script) ==
    [kind |-> "Script", source |-> script, arity |-> 0, variadic |-> FALSE, get |-> FALSE, set |-> FALSE]

Native(arity, variadic) ==
    [kind |-> "Native", source |-> "", arity |-> arity, variadic |-> variadic, get |-> FALSE, set |-> FALSE]

Member(get, set) ==
    [kind |-> "Member", source |-> "", arity |-> 0, variadic |-> FALSE, get |-> get, set |-> set]

\* HashMap: the keys, the value of a key, and insert
Keys(map) == { pair[1] : pair \in map }

Get(map, key) == (CHOOSE pair \in map : pair[1] = key)[2]

insert(map, key, value) == { pair \in map : pair[1] # key } \cup {<<key, value>>}

\* ssa::Prototype of an item
Prototype(item) ==
    CASE item.kind = "Script" -> [kind |-> "Script", arity |-> 0, variadic |-> FALSE]
      [] item.kind = "Native" -> [kind |-> "Native", arity |-> item.arity, variadic |-> item.variadic]
      [] item.kind = "Member" -> [kind |-> "Member", arity |-> 0, variadic |-> FALSE]

\* the prototypes of the scripts only
prototypes_of_scripts(items) ==
    { <<pair[1], Prototype(pair[2])>> : pair \in { q \in items : q[2].kind = "Script" } }

\* the prototypes build collects from the items
prototypes_of(items) == { <<pair[1], Prototype(pair[2])>> : pair \in items }

\* sources that parse without a diagnostic and with one
Sources == {"x = 1", "x = "}

Diagnosed(script) == script = "x = "

\* compile: the function and the debug table of a source, made with the
\* prototypes it was given
compile(prototypes, script) ==
    [function |-> [of |-> script, prototypes |-> prototypes], debug |-> [of |-> script]]

\* vm::Resources::default()
NoResources == [scripts |-> {}, debug |-> {}, api |-> {}, get |-> {}, set |-> {}]

\* the Script arm of the loop of build
script_arm(p, name, script) ==
    [p EXCEPT !.calls = Append(@, <<name, script>>),
              !.reports = IF Diagnosed(script) THEN @ \cup {name} ELSE @,
              !.resources.scripts = insert(@, name, compile(p.prototypes, script).function),
              !.resources.debug = insert(@, name, compile(p.prototypes, script).debug)]

\* the Native arm
native_arm(p, name, item) == [p EXCEPT !.resources.api = insert(@, name, "function")]

\* the Member arm with the getter and the setter inserted whatever they are
member_arm_both(p, name, item) ==
    [p EXCEPT !.resources.get = insert(@, name, "get"),
              !.resources.set = insert(@, name, "set")]

\* the Member arm
member_arm(p, name, item) ==
    [p EXCEPT !.resources.get = IF item.get THEN insert(@, name, "get") ELSE @,
              !.resources.set = IF item.set THEN insert(@, name, "set") ELSE @]

\* the items of a project
ItemValues ==
    { Script(script) : script \in Sources }
        \cup { Native(arity, variadic) : arity \in {0, 2}, variadic \in BOOLEAN }
        \cup { Member(get, set) : get \in BOOLEAN, set \in BOOLEAN }

ItemMaps ==
    UNION { { { <<name, f[name]>> : name \in S } : f \in [S -> ItemValues] } : S \in SUBSET Names }

InitBuild ==
    /\ \E items \in ItemMaps :
          project = [items |-> items, prototypes |-> {}, resources |-> NoResources,
                     rest |-> {}, calls |-> <<>>, reports |-> {}, pc |-> "prototypes"]
    /\ heap = Unused /\ function = Unused
    /\ NoFrontEnd

\* items.iter().map(..).collect(), and the start of the loop
CollectPrototypes ==
    /\ project.pc = "prototypes"
    /\ project' = [project EXCEPT !.prototypes = prototypes_of(project.items),
                                  !.rest = project.items, !.pc = "loop"]
    /\ UNCHANGED <<front, heap, function>>

\* one turn of the loop on the item the iterator gives
Visit(kind, p, pair) ==
    CASE kind = "Script" -> script_arm(p, pair[1], pair[2].source)
      [] kind = "Native" -> native_arm(p, pair[1], pair[2])
      [] kind = "Member" -> member_arm(p, pair[1], pair[2])

Turn(kind) ==
    /\ project.pc = "loop"
    /\ \E pair \in project.rest :
          /\ pair[2].kind = kind
          /\ project' = [Visit(kind, project, pair) EXCEPT !.rest = @ \ {pair}]
    /\ UNCHANGED <<front, heap, function>>

BuildScript == Turn("Script")

BuildNative == Turn("Native")

BuildMember == Turn("Member")

\* the end of the loop: build returns the resources
BuildReturn ==
    /\ project.pc = "loop" /\ project.rest = {}
    /\ project' = [project EXCEPT !.pc = "done"]
    /\ UNCHANGED <<front, heap, function>>

NextBuild == CollectPrototypes \/ BuildScript \/ BuildNative \/ BuildMember \/ BuildReturn

SpecBuild == InitBuild /\ [][NextBuild]_vars

\* the names registered with a kind, and with a getter or a setter
Registered(kind) == { pair[1] : pair \in { q \in project.items : q[2].kind = kind } }

WithGetter == { pair[1] : pair \in { q \in project.items : q[2].kind = "Member" /\ q[2].get } }

WithSetter == { pair[1] : pair \in { q \in project.items : q[2].kind = "Member" /\ q[2].set } }

\* C18: build partitions the items into the tables of Resources by kind:
\* scripts and debug have the Script names as keys, api the Native names,
\* get and set the Member names with a getter and a setter; no name is in
\* tables of two kinds; a script with diagnostics has its entries as well
\* and the other scripts are compiled.
C18_TablesByKind ==
    project.pc = "done" =>
        /\ Keys(project.resources.scripts) = Registered("Script")
        /\ Keys(project.resources.debug) = Registered("Script")
        /\ Keys(project.resources.api) = Registered("Native")
        /\ Keys(project.resources.get) = WithGetter
        /\ Keys(project.resources.set) = WithSetter
        /\ Keys(project.resources.scripts) \cap Keys(project.resources.api) = {}
        /\ Keys(project.resources.scripts) \cap (Keys(project.resources.get) \cup Keys(project.resources.set)) = {}
        /\ Keys(project.resources.api) \cap (Keys(project.resources.get) \cup Keys(project.resources.set)) = {}
        /\ project.reports \subseteq Keys(project.resources.scripts)
        /\ \A table \in {project.resources.scripts, project.resources.debug, project.resources.api,
                         project.resources.get, project.resources.set} :
              \A p1 \in table, p2 \in table : p1[1] = p2[1] => p1 = p2

\* build has returned for a script with a diagnostic, a script without
\* and a member that has a getter and no setter
C18_Witness ==
    /\ project.pc = "done"
    /\ project.reports # {}
    /\ Registered("Script") \ project.reports # {}
    /\ WithGetter \ WithSetter # {}

\* the table has the prototype of every registered item: its kind, and the
\* arity and the variadic flag of a Native
Complete(table) ==
    /\ Keys(table) = Keys(project.items)
    /\ \A pair \in table :
          /\ Get(project.items, pair[1]).kind = pair[2].kind
          /\ pair[2].kind = "Native" =>
                /\ pair[2].arity = Get(project.items, pair[1]).arity
                /\ pair[2].variadic = Get(project.items, pair[1]).variadic

\* the names the factory was called with
CalledNames == { project.calls[i][1] : i \in 1..Len(project.calls) }

\* C19: build has the prototype of every registered item before it
\* compiles the first script, so that every script is compiled against
\* the complete table in whatever order the items are visited, and the
\* error handler factory is called exactly once per Script item, with its
\* name and source, and never for a Native or a Member.
C19_PrototypesFirst ==
    /\ project.calls # <<>> => Complete(project.prototypes)
    /\ \A pair \in project.resources.scripts :
          /\ Complete(pair[2].prototypes)
          /\ pair[2].of = Get(project.items, pair[1]).source
    /\ \A i \in 1..Len(project.calls) :
          /\ <<project.calls[i][1], Script(project.calls[i][2])>> \in project.items
          /\ \A j \in 1..Len(project.calls) : project.calls[i][1] = project.calls[j][1] => i = j
    /\ CalledNames \cap (Registered("Native") \cup Registered("Member")) = {}
    /\ project.pc = "done" => CalledNames = Registered("Script")

\* build has returned for two scripts and a variadic native of arity 2
C19_Witness ==
    /\ project.pc = "done"
    /\ Len(project.calls) = 2
    /\ \E name \in Names : <<name, Native(2, TRUE)>> \in project.items

\* C20: binary operators of one level are left-associative: for op1 and
\* op2 of the same level of the precedence table, `a op1 b op2 c` parses
\* as Binary(op2, Binary(op1, a, b), c), whether the two are the same
\* operator or not, and the whole source is consumed without a diagnostic.
C20_LeftAssociative ==
    (pc = "done" /\ source \in TwoOperatorSources /\ Level(FirstOp) = Level(SecondOp)) =>
        /\ Shape(result[1].x) =
              Bin(OpName(SecondOp),
                  Bin(OpName(FirstOp), Ident("a"), OperandShape(Middle)), Ident("c"))
        /\ Kind(parser.current, "Eof") /\ parser.errors = <<>>

\* a parse of `a / 3 mod c`
C20_Witness ==
    /\ pc = "done"
    /\ source \in TwoOperatorSources
    /\ FirstOp.v = "Slash" /\ SecondOp.v = "mod"
    /\ Middle = <<Num(<<"3">>)>>
    /\ result[1].x.l.x.k = "Binary"

(***************************************************************************)
(* Reading spans: the child statements and expressions of a node, each     *)
(* with its span.                                                          *)
(***************************************************************************)
RECURSIVE Kids(_)
Kids(n) ==
    CASE n.k = "Binary" -> <<n.l, n.r>>
      [] n.k = "Unary" -> <<n.e>>
      [] n.k = "Field" -> <<n.e>>
      [] n.k = "Index" -> <<n.e>> \o n.args
      [] n.k = "Call" -> <<n.f>> \o n.args
      [] n.k = "Assign" -> <<n.l, n.r>>
      [] n.k = "Invoke" -> Kids(n.call)
      [] n.k = "Error" -> Kids(n.e)
      [] n.k = "Block" -> n.stmts
      [] n.k = "If" -> <<n.cond, n.then>> \o n.else
      [] n.k \in {"While", "With"} -> <<n.cond, n.body>>
      [] n.k = "Repeat" -> <<n.count, n.body>>
      [] n.k = "Do" -> <<n.body, n.cond>>
      [] n.k = "For" -> <<n.init, n.cond, n.next, n.body>>
      [] n.k = "Switch" -> <<n.e>> \o n.body
      [] n.k = "Return" -> <<n.e>>
      [] n.k = "Case" -> n.e
      [] OTHER -> <<>>

\* the span [low, high) of outer contains the one of inner
Contains(outer, inner) == outer.low <= inner.low /\ inner.high <= outer.high

\* the span of a node is well formed and contains the spans of its
\* children, and so for every node below it
RECURSIVE Nests(_, _)
Nests(n, span) ==
    /\ span.low <= span.high
    /\ \A i \in 1..Len(Kids(n)) :
          /\ Contains(span, Kids(n)[i].span)
          /\ Nests(Kids(n)[i].x, Kids(n)[i].span)

\* C21: spans nest: every statement parse_statement returns has low <= high
\* and a span that contains the span of each of its child statements and
\* expressions, and so has every node below it, the bodies of `if`,
\* `repeat`, `while`, `with`, `do`, `for` and `switch` included.
C21_SpansNest ==
    \A i \in 1..Len(result) : Nests(result[i].x, result[i].span)

\* the places of a Value in the instruction lists and in the argument
\* lists of the blocks of f: the block and the index in its list
InInstructions(f, value) ==
    { place \in (1..Len(f.blocks)) \X (1..Len(f.values)) :
        /\ place[2] <= Len(f.blocks[place[1]].instructions)
        /\ f.blocks[place[1]].instructions[place[2]] = value }

InArguments(f, value) ==
    { place \in (1..Len(f.blocks)) \X (1..Len(f.values)) :
        /\ place[2] <= Len(f.blocks[place[1]].arguments)
        /\ f.blocks[place[1]].arguments[place[2]] = value }

Occurrences(f, value) == Cardinality(InInstructions(f, value)) + Cardinality(InArguments(f, value))

\* the Values of f, and the Value the last call gave
ValuesOf(f) == 0..(Len(f.values) - 1)

Emitted(f) == f.last.out.x[1]

\* the step is a call of op that gave a Value
Emits(op, f, g) == g.last.op = op /\ Len(g.values) > Len(f.values)

\* block b of g is block b of f with value at the end of its list
\* `instructions` or `arguments`, and every other list is as it was
Appended(f, g, block, list, value) ==
    /\ Len(g.blocks) = Len(f.blocks)
    /\ \A b \in 1..Len(f.blocks) :
          /\ g.blocks[b].instructions =
                IF b = block + 1 /\ list = "instructions"
                THEN Append(f.blocks[b].instructions, value) ELSE f.blocks[b].instructions
          /\ g.blocks[b].arguments =
                IF b = block + 1 /\ list = "arguments"
                THEN Append(f.blocks[b].arguments, value) ELSE f.blocks[b].arguments

\* C22: single definition: every call of emit_instruction and of
\* emit_argument returns a Value that no call returned before; a Value is
\* at most once in the instruction and argument lists of all blocks;
\* emit_instruction appends at the end of the instruction list of the
\* block it names and nowhere else, and emit_argument changes no
\* instruction list.
C22_SingleDefinition ==
    /\ [](\A value \in ValuesOf(function) : Occurrences(function, value) <= 1)
    /\ [][/\ (Emits("emit_instruction", function, function') \/ Emits("emit_argument", function, function'))
              => /\ Emitted(function') \notin ValuesOf(function)
                 /\ Emitted(function') \in ValuesOf(function')
                 /\ Len(function'.values) = Len(function.values) + 1
                 /\ SubSeq(function'.values, 1, Len(function.values)) = function.values
          /\ Emits("emit_instruction", function, function')
              => Appended(function, function', function'.last.block, "instructions", Emitted(function'))
          /\ Emits("emit_argument", function, function')
              => Appended(function, function', function'.last.block, "arguments", Emitted(function'))]_vars

\* emit_argument gave Value 2 for ENTRY after emit_instruction gave Value 1
\* for it
C22_Witness ==
    /\ function.last = SsaCalled("emit_argument", ENTRY, Gave("Value", <<2>>))
    /\ at(function.blocks, ENTRY).instructions = <<1>>
    /\ at(function.blocks, ENTRY).arguments = <<2>>

====
